---- MODULE Spec2Model ----
(***************************************************************************)
(* A model of the meme service's resource provisioner (src/src/startup.rs, *)
(* and the single-attempt provisioning of src/src/main.rs and              *)
(* src/src/db.rs), of its metadata repository                             *)
(* (src/src/repositories.rs, src/src/db.rs) and of its blob store          *)
(* (src/src/storage.rs).                                                   *)
(*                                                                         *)
(* Time is counted in milliseconds.  The retry loop is the one of the      *)
(* `backoff` crate that startup.rs calls: retry(ExponentialBackoff, op).   *)
(***************************************************************************)
EXTENDS Integers, Sequences, FiniteSets, TLC

VARIABLES
    legacy,      \* TRUE: the host is main.rs with db.rs; FALSE: init_resources
    plan,        \* per resource: the fault injection of the backend
    exists,      \* per resource: the backend holds the table / the bucket
    created,     \* per resource: how many times the backend created it
    phase,       \* per host: "table", "bucket", "serving", "exited"
    attempts,    \* per host and resource: creation requests issued
    transients,  \* per host and resource: transient failures received
    elapsed,     \* per host: time since the running retry loop started
    interval,    \* per host: ExponentialBackoff.current_interval
    wait,        \* per host: the randomized interval that ended the retry loop
    lastResp,    \* per host and resource: the last answer of the backend
    outcome,     \* per host and resource: what the provisioning returned
    served,      \* per host: requests accepted
    table,       \* the items of the metadata table
    lastOp,      \* the last repository call and what it returned
    written,     \* per id: the record of the last successful create
    scan,        \* the pages and the answers of the backend to the last enumeration
    requests,    \* backend requests issued by the last call
    objects,     \* per key: the object the bucket holds
    lastBlob,    \* the last blob store call and what it returned
    uploaded,    \* per key: the arguments of the last successful upload
    region,      \* the configured region
    bucketReq,   \* per host: the location constraint of its last CreateBucket request
    task         \* per caller: the handler it runs, its position and its locals

provVars == <<legacy, plan, exists, created, phase, attempts, transients,
              elapsed, interval, wait, lastResp, outcome, served,
              region, bucketReq>>
repoVars == <<table, lastOp, written>>
blobVars == <<objects, lastBlob, uploaded>>
vars == <<legacy, plan, exists, created, phase, attempts, transients,
          elapsed, interval, wait, lastResp, outcome, served,
          table, lastOp, written, scan, requests, objects, lastBlob, uploaded,
          region, bucketReq, task>>

----------------------------------------------------------------------------
(* Bounds of the model *)

MaxFaults == 2
MaxRaceFaults == 1
MaxServed == 1

Hosts == {"h1"}
RaceHosts == {"h1", "h2"}
Resources == {"table", "bucket"}
ReqDurations == {0, 6000}

----------------------------------------------------------------------------
(* Option *)

Some(v) == <<"Some", v>>
None == <<"None">>
IsSome(o) == o[1] = "Some"
Unwrap(o) == o[2]

----------------------------------------------------------------------------
(* Retry configuration: default_resource_backoff *)

InitialInterval == 500
MaxInterval == 5000
Multiplier == 2
MaxElapsedTime == 15000

----------------------------------------------------------------------------
(* Answers of the backend to a creation request (SdkError variants) *)

Resp(v, c) == [variant |-> v, code |-> c]
Success == Resp("Ok", "")
NoResp == Resp("None", "")
ServiceError(c) == Resp("ServiceError", c)

AlreadyExistsSignals(r) ==
    IF r = "table" THEN {ServiceError("ResourceInUseException")}
    ELSE {ServiceError("BucketAlreadyOwnedByYou"), ServiceError("BucketAlreadyExists")}

TransientFaults ==
    {Resp("DispatchFailure", ""), Resp("TimeoutError", ""),
     ServiceError("Throttling"), ServiceError("InternalServerError")}

PermanentFaults ==
    {Resp("ConstructionFailure", ""), ServiceError("ValidationException"),
     ServiceError("AccessDenied")}

IsTransientFault(resp) == resp \in TransientFaults
IsPermanentFault(resp) == resp \in PermanentFaults

----------------------------------------------------------------------------
(* The fault-injected backend.  plan[r].flaky transient failures come      *)
(* first; after them the backend is healthy, or fails for ever with        *)
(* transient or with permanent failures.  A healthy backend creates the    *)
(* resource when it is absent and answers its already-exists signal when   *)
(* it is present.  A request that timed out may have been carried out.     *)

Tails == {"healthy", "transient", "permanent"}

BackendAnswers(r) ==
    IF plan[r].flaky > 0 \/ plan[r].tail = "transient"
    THEN {a \in [resp : TransientFaults, applied : BOOLEAN] :
            a.applied => (a.resp.variant = "TimeoutError" /\ ~exists[r])}
    ELSE IF plan[r].tail = "permanent"
    THEN [resp : PermanentFaults, applied : {FALSE}]
    ELSE IF exists[r]
    THEN [resp : AlreadyExistsSignals(r), applied : {FALSE}]
    ELSE [resp : {Success}, applied : {TRUE}]

BackendAfter(r, a) ==
    /\ plan' = [plan EXCEPT ![r].flaky = IF @ > 0 THEN @ - 1 ELSE 0]
    /\ exists' = [exists EXCEPT ![r] = @ \/ a.applied]
    /\ created' = [created EXCEPT ![r] = IF a.applied THEN @ + 1 ELSE @]

----------------------------------------------------------------------------
(* Results of a provisioning operation *)

Result(k, cause) == [kind |-> k, cause |-> cause]
Pending == Result("Pending", NoResp)
OkResult == Result("Ok", NoResp)
InitError(cause) == Result("InitError", cause)

----------------------------------------------------------------------------
(* startup.rs: classification of a failed creation request *)

\* A timeout taken for a failure that no retry can mend.
is_dynamodb_create_error_retryable_no_timeout(err) ==
    IF err.variant = "DispatchFailure" THEN TRUE
    ELSE IF err.variant = "ServiceError"
    THEN err.code # "ResourceInUseException"
    ELSE FALSE

is_dynamodb_create_error_retryable(err) ==
    IF err.variant \in {"DispatchFailure", "TimeoutError"} THEN TRUE
    ELSE IF err.variant = "ServiceError"
    THEN err.code # "ResourceInUseException"
    ELSE FALSE

is_s3_create_error_retryable(err) ==
    IF err.variant \in {"DispatchFailure", "TimeoutError"} THEN TRUE
    ELSE IF err.variant = "ServiceError"
    THEN ~(err.code = "BucketAlreadyOwnedByYou" \/ err.code = "BucketAlreadyExists")
    ELSE FALSE

\* The already-exists signal reported like any other service error.
handle_final_dynamodb_error_strict(sdk_error) ==
    InitError(sdk_error)

handle_final_dynamodb_error(sdk_error) ==
    IF sdk_error.variant = "ServiceError"
    THEN IF sdk_error.code = "ResourceInUseException"
         THEN OkResult
         ELSE InitError(sdk_error)
    ELSE InitError(sdk_error)

\* Only the caller's own bucket counts as already there.
handle_final_s3_error_owned_only(sdk_error) ==
    IF sdk_error.variant = "ServiceError"
    THEN IF sdk_error.code = "BucketAlreadyOwnedByYou"
         THEN OkResult
         ELSE InitError(sdk_error)
    ELSE InitError(sdk_error)

handle_final_s3_error(sdk_error) ==
    IF sdk_error.variant = "ServiceError"
    THEN IF sdk_error.code = "BucketAlreadyOwnedByYou" \/ sdk_error.code = "BucketAlreadyExists"
         THEN OkResult
         ELSE InitError(sdk_error)
    ELSE InitError(sdk_error)

----------------------------------------------------------------------------
(* The exponential backoff that retry() consults after a transient error.  *)
(* The randomization factor is the default 0.5: the interval drawn lies    *)
(* between half and one and a half times the current interval; the model   *)
(* draws the two ends and the middle.                                      *)

RandomizedIntervals(cur) == {cur \div 2, cur, cur + (cur \div 2)}

\* The interval doubled without the cap of max_interval.
increment_current_interval_uncapped(cur) == cur * Multiplier

increment_current_interval(cur) ==
    IF cur * Multiplier >= MaxInterval THEN MaxInterval ELSE cur * Multiplier

\* The budget of 15 s taken for 15 ms: the first transient failure ends the
\* retry loop.
next_backoff_budget_in_millis(elapsed_time, cur, randomized_interval) ==
    IF elapsed_time > 15
    THEN [go |-> FALSE, wait |-> 0, interval |-> cur]
    ELSE [go |-> elapsed_time + randomized_interval <= 15,
          wait |-> randomized_interval,
          interval |-> increment_current_interval(cur)]

\* go: another attempt follows after `wait`; ~go: the retry loop gives up.
next_backoff(elapsed_time, cur, randomized_interval) ==
    IF elapsed_time > MaxElapsedTime
    THEN [go |-> FALSE, wait |-> 0, interval |-> cur]
    ELSE [go |-> elapsed_time + randomized_interval <= MaxElapsedTime,
          wait |-> randomized_interval,
          interval |-> increment_current_interval(cur)]

----------------------------------------------------------------------------
(* init_resources and main: the table first, then the bucket, each result  *)
(* passed through `?`; the listener is bound after both.                   *)

\* The result of the provisioning dropped instead of passed through `?`.
NextPhase_ignoring_errors(r, res) ==
    IF r = "table" THEN "bucket" ELSE "serving"

NextPhase(r, res) ==
    IF res.kind = "Ok"
    THEN IF r = "table" THEN "bucket" ELSE "serving"
    ELSE "exited"

\* The operation on resource r of host p returns res.
Return(p, r, res, el, w, iv) ==
    /\ outcome' = [outcome EXCEPT ![p][r] = res]
    /\ phase' = [phase EXCEPT ![p] = NextPhase(r, res)]
    /\ elapsed' = [elapsed EXCEPT ![p] = IF res.kind = "Ok" THEN 0 ELSE el]
    /\ wait' = [wait EXCEPT ![p] = IF res.kind = "Ok" THEN 0 ELSE w]
    /\ interval' = [interval EXCEPT ![p] = IF res.kind = "Ok" THEN InitialInterval ELSE iv]

\* One creation request of host p for resource r, answered by a.
Count(p, r, a) ==
    /\ attempts' = [attempts EXCEPT ![p][r] = @ + 1]
    /\ transients' = [transients EXCEPT ![p][r] =
                        IF IsTransientFault(a.resp) THEN @ + 1 ELSE @]
    /\ lastResp' = [lastResp EXCEPT ![p][r] = a.resp]

\* One turn of the loop of retry(default_resource_backoff(), operation).
\* The request was answered by a after d; retryable is the operation's
\* classification of a failure and final what the caller returns for it.
RetryTurn(p, r, a, d, retryable, final) ==
    LET el == elapsed[p] + d IN
    /\ BackendAfter(r, a)
    /\ Count(p, r, a)
    /\ IF a.resp = Success
       THEN Return(p, r, OkResult, el, 0, interval[p])
       ELSE IF retryable
       THEN \E rnd \in RandomizedIntervals(interval[p]) :
                LET nb == next_backoff(el, interval[p], rnd) IN
                IF nb.go
                THEN /\ elapsed' = [elapsed EXCEPT ![p] = el + nb.wait]
                     /\ wait' = wait
                     /\ interval' = [interval EXCEPT ![p] = nb.interval]
                     /\ UNCHANGED <<outcome, phase>>
                ELSE Return(p, r, final, el, nb.wait, nb.interval)
       ELSE Return(p, r, final, el, wait[p], interval[p])

\* The location constraint sent for every region.
bucket_config_always(region_str) == Some(region_str)

\* The CreateBucketConfiguration of the request: its location constraint.
bucket_config(region_str) ==
    IF region_str # "us-east-1" THEN Some(region_str) ELSE None

try_create_dynamodb_table(p) ==
    /\ ~legacy
    /\ phase[p] = "table"
    /\ \E a \in BackendAnswers("table"), d \in ReqDurations :
           RetryTurn(p, "table", a, d,
                     is_dynamodb_create_error_retryable(a.resp),
                     handle_final_dynamodb_error(a.resp))
    /\ UNCHANGED <<legacy, served, table, lastOp, written,
                   scan, requests, objects, lastBlob, uploaded,
                   region, bucketReq, task>>

try_create_s3_bucket(p) ==
    /\ ~legacy
    /\ phase[p] = "bucket"
    /\ \E a \in BackendAnswers("bucket"), d \in ReqDurations :
           RetryTurn(p, "bucket", a, d,
                     is_s3_create_error_retryable(a.resp),
                     handle_final_s3_error(a.resp))
    /\ bucketReq' = [bucketReq EXCEPT ![p] = bucket_config(region)]
    /\ UNCHANGED <<legacy, served, table, lastOp, written,
                   scan, requests, objects, lastBlob, uploaded, region, task>>

----------------------------------------------------------------------------
(* main.rs with db.rs: one creation request each, no retry *)

\* The request was answered by a after d; on_error is what the caller
\* returns for a failure.
SingleAttempt(p, r, a, d, on_error) ==
    /\ BackendAfter(r, a)
    /\ Count(p, r, a)
    /\ Return(p, r, IF a.resp = Success THEN OkResult ELSE on_error,
              elapsed[p] + d, 0, interval[p])

create_memes_table_result(e) ==
    IF e.variant = "ServiceError" /\ e.code = "ResourceInUseException"
    THEN OkResult
    ELSE Result("DatabaseError", e)

ensure_s3_bucket_exists_result(sdk_err) ==
    IF sdk_err.variant = "ServiceError"
       /\ (sdk_err.code = "BucketAlreadyOwnedByYou" \/ sdk_err.code = "BucketAlreadyExists")
    THEN OkResult
    ELSE Result("AwsSdkError", sdk_err)

create_memes_table(p) ==
    /\ legacy
    /\ phase[p] = "table"
    /\ \E a \in BackendAnswers("table"), d \in ReqDurations :
           SingleAttempt(p, "table", a, d, create_memes_table_result(a.resp))
    /\ UNCHANGED <<legacy, served, table, lastOp, written,
                   scan, requests, objects, lastBlob, uploaded,
                   region, bucketReq, task>>

ensure_s3_bucket_exists(p) ==
    /\ legacy
    /\ phase[p] = "bucket"
    /\ \E a \in BackendAnswers("bucket"), d \in ReqDurations :
           SingleAttempt(p, "bucket", a, d, ensure_s3_bucket_exists_result(a.resp))
    /\ bucketReq' = [bucketReq EXCEPT ![p] = bucket_config(region)]
    /\ UNCHANGED <<legacy, served, table, lastOp, written,
                   scan, requests, objects, lastBlob, uploaded, region, task>>

\* axum::serve: the host accepts a request.
Serve(p) ==
    /\ phase[p] = "serving"
    /\ served[p] < MaxServed
    /\ served' = [served EXCEPT ![p] = @ + 1]
    /\ UNCHANGED <<legacy, plan, exists, created, phase, attempts, transients,
                   elapsed, interval, wait, lastResp, outcome, table, lastOp, written,
                   scan, requests, objects, lastBlob, uploaded,
                   region, bucketReq, task>>

----------------------------------------------------------------------------
(* Records, strings and items of the metadata table *)

NumIds == 2
Uuids == 1..NumIds
NoId == NumIds + 1
Texts == {<<"t1", "d1">>, <<"t2", "d2">>}
ImageKeys == {"k1.png", "k2.png"}

\* The records the callers write: a title with its description, and a key.
Memes ==
    {[meme_id |-> u, title |-> x[1], description |-> x[2], image_key |-> k] :
        u \in Uuids, x \in Texts, k \in ImageKeys}

\* A string that spells a UUID is modelled by its spelling and the UUID it
\* spells; Uuid::to_string writes the lower-case hyphenated spelling,
\* Uuid::parse_str reads every spelling of the uuid crate.
UuidSpellings == {"hyphenated", "upper", "simple"}
Garbage == [fmt |-> "garbage", id |-> NoId]
UuidToString(u) == [fmt |-> "hyphenated", id |-> u]
Uuid_parse_str(s) == IF s.fmt \in UuidSpellings THEN Some(s.id) ELSE None

\* AttributeValue::S and as_s
S(x) == <<"S", x>>
as_s(av) == IF av[1] = "S" THEN Some(av[2]) ELSE None

\* The item that create and put_meme write.
\* The title and the description written to each other's attribute.
MemeItem_swapped(meme) ==
    [meme_id |-> S(UuidToString(meme.meme_id)),
     title |-> S(meme.description),
     description |-> S(meme.title),
     image_key |-> S(meme.image_key)]

MemeItem(meme) ==
    [meme_id |-> S(UuidToString(meme.meme_id)),
     title |-> S(meme.title),
     description |-> S(meme.description),
     image_key |-> S(meme.image_key)]

AttrString(item, name) ==
    IF name \in DOMAIN item THEN as_s(item[name]) ELSE None

\* A missing or mistyped title read as the empty string.
item_to_meme_default_title(item) ==
    LET id_s == AttrString(item, "meme_id")
        meme_id == IF IsSome(id_s) THEN Uuid_parse_str(Unwrap(id_s)) ELSE None
        title == AttrString(item, "title")
        description == AttrString(item, "description")
        image_key == AttrString(item, "image_key")
    IN  IF IsSome(meme_id) /\ IsSome(description) /\ IsSome(image_key)
        THEN Some([meme_id |-> Unwrap(meme_id),
                   title |-> IF IsSome(title) THEN Unwrap(title) ELSE "",
                   description |-> Unwrap(description),
                   image_key |-> Unwrap(image_key)])
        ELSE None

item_to_meme(item) ==
    LET id_s == AttrString(item, "meme_id")
        meme_id == IF IsSome(id_s) THEN Uuid_parse_str(Unwrap(id_s)) ELSE None
        title == AttrString(item, "title")
        description == AttrString(item, "description")
        image_key == AttrString(item, "image_key")
    IN  IF IsSome(meme_id) /\ IsSome(title) /\ IsSome(description) /\ IsSome(image_key)
        THEN Some([meme_id |-> Unwrap(meme_id),
                   title |-> Unwrap(title),
                   description |-> Unwrap(description),
                   image_key |-> Unwrap(image_key)])
        ELSE None

----------------------------------------------------------------------------
(* The metadata backend: a table keyed by the attribute meme_id.  A write  *)
(* request that fails with a timeout may have been carried out.            *)

PutItem(tbl, item) == {i \in tbl : i.meme_id # item.meme_id} \cup {item}
DeleteItem(tbl, key) == {i \in tbl : i.meme_id # key}
GetItem(tbl, key) ==
    IF \E i \in tbl : i.meme_id = key
    THEN Some(CHOOSE i \in tbl : i.meme_id = key)
    ELSE None

RequestFaults == {"TimeoutError", "ServiceError"}
ReadAnswers == {"ok"} \cup RequestFaults
WriteAnswers ==
    {a \in [resp : ReadAnswers, applied : BOOLEAN] :
        /\ a.resp = "ok" => a.applied
        /\ a.resp = "ServiceError" => ~a.applied}

----------------------------------------------------------------------------
(* The metadata backend answering Scan: the items in any order, cut into   *)
(* any number of pages, empty pages included; every page but the last      *)
(* comes with a continuation token (LastEvaluatedKey), and the backend     *)
(* serves the page after the one the token names.                          *)

MaxPages == 3

Perms(set) ==
    {f \in [1..Cardinality(set) -> set] :
        \A i, j \in 1..Cardinality(set) : f[i] = f[j] => i = j}
PageEnds(n, len) ==
    {e \in [1..n -> 0..len] :
        /\ e[n] = len
        /\ \A j \in 1..(n - 1) : e[j] <= e[j + 1]}
Paginations(tbl) ==
    UNION {{[j \in 1..n |-> SubSeq(perm, IF j = 1 THEN 1 ELSE e[j - 1] + 1, e[j])] :
                perm \in Perms(tbl), e \in PageEnds(n, Cardinality(tbl))} :
           n \in 1..MaxPages}
\* The answers to the requests of one enumeration: at most one fails.
ScanAnswers(n) ==
    {[j \in 1..n |-> IF j = k THEN f ELSE "ok"] : k \in 0..n, f \in RequestFaults}
NoScan == [pages |-> <<>>, answers |-> <<>>]
ScanPage(pages, exclusive_start_key) ==
    LET j == (IF IsSome(exclusive_start_key) THEN Unwrap(exclusive_start_key) ELSE 0) + 1
    IN  [items |-> pages[j],
         last_evaluated_key |-> IF j < Len(pages) THEN Some(j) ELSE None]

\* The backend answering Scan while the table changes: it walks the keys in
\* a fixed order, a page covers the keys after the token up to some key, and
\* holds the items the table has under them when the page is served.  The
\* page that reaches the last key may come with a token or without.
KeyOf(item) == item.meme_id[2].id
LiveScan(tbl, exclusive_start_key) ==
    LET k == IF IsSome(exclusive_start_key) THEN Unwrap(exclusive_start_key) ELSE 0
        sorted(items) ==
            [n \in 1..Cardinality(items) |->
                CHOOSE i \in items : Cardinality({j \in items : KeyOf(j) < KeyOf(i)}) = n - 1]
        page(b) == sorted({i \in tbl : k < KeyOf(i) /\ KeyOf(i) <= b})
    IN  {[items |-> page(b), last_evaluated_key |-> Some(b)] : b \in (k + 1)..NumIds}
            \cup {[items |-> page(NumIds), last_evaluated_key |-> None]}

\* Items another writer left in the table: an attribute missing, an
\* attribute that is no string, a key that spells no UUID.
N(x) == <<"N", x>>
SampleMeme(u) ==
    [meme_id |-> u, title |-> "t1", description |-> "d1", image_key |-> "k1.png"]
WithoutTitle(item) == [a \in DOMAIN item \ {"title"} |-> item[a]]
SampleItems ==
    UNION {{MemeItem(SampleMeme(u)),
            WithoutTitle(MemeItem(SampleMeme(u))),
            [MemeItem(SampleMeme(u)) EXCEPT !.image_key = N(7)]} : u \in Uuids}
    \cup {[MemeItem(SampleMeme(1)) EXCEPT !.meme_id = S(Garbage)]}
StoredTables ==
    {t \in SUBSET SampleItems : \A i, j \in t : i.meme_id = j.meme_id => i = j}

----------------------------------------------------------------------------
(* Results of a repository call *)

Res(tag, value) == [tag |-> tag, value |-> value]
OkUnit == Res("Ok", None)
\* prior: the record the table held for the id when the call was made.
Op(op, id, meme, prior, backend, result) ==
    [op |-> op, id |-> id, meme |-> meme, prior |-> prior,
     backend |-> backend, result |-> result]
NoOp == Op("none", NoId, None, None, "none", OkUnit)

Serving == \E p \in Hosts : phase[p] = "serving"

\* The items of the table that decode to a record of this id.
LiveItems(tbl, id) ==
    {i \in tbl : IsSome(item_to_meme(i)) /\ Unwrap(item_to_meme(i)).meme_id = id}
Prior(id) ==
    IF LiveItems(table, id) = {} THEN None
    ELSE item_to_meme(CHOOSE i \in LiveItems(table, id) : TRUE)

----------------------------------------------------------------------------
(* repositories.rs: DynamoDbMemeRepository *)

\* PutItem under the condition attribute_not_exists(meme_id): the backend
\* refuses to overwrite, and the refusal is reported as a backend error.
create_if_absent(meme) ==
    /\ Serving /\ ~legacy
    /\ \E a \in WriteAnswers :
        LET refused == a.resp = "ok" /\ IsSome(Prior(meme.meme_id)) IN
        /\ table' = IF a.applied /\ ~IsSome(Prior(meme.meme_id))
                     THEN PutItem(table, MemeItem(meme)) ELSE table
        /\ lastOp' = Op("create", meme.meme_id, Some(meme), Prior(meme.meme_id),
                        IF refused THEN "ConditionalCheckFailedException" ELSE a.resp,
                        IF a.resp = "ok" /\ ~refused THEN OkUnit
                        ELSE Res("BackendError", None))
        /\ written' = [written EXCEPT ![meme.meme_id] =
                         IF a.resp = "ok" /\ ~refused THEN Some(meme) ELSE None]
    /\ requests' = 1
    /\ UNCHANGED <<scan, objects, lastBlob, uploaded>>
    /\ UNCHANGED provVars

\* A failed PutItem request issued a second time.
create_retry_once(meme) ==
    /\ Serving /\ ~legacy
    /\ \E a1 \in WriteAnswers, a2 \in WriteAnswers :
        LET again == a1.resp # "ok"
            a == IF again THEN a2 ELSE a1
        IN
        /\ table' = IF a1.applied \/ (again /\ a2.applied)
                     THEN PutItem(table, MemeItem(meme)) ELSE table
        /\ lastOp' = Op("create", meme.meme_id, Some(meme), Prior(meme.meme_id), a.resp,
                        IF a.resp = "ok" THEN OkUnit ELSE Res("BackendError", None))
        /\ written' = [written EXCEPT ![meme.meme_id] =
                         IF a.resp = "ok" THEN Some(meme) ELSE None]
        /\ requests' = IF again THEN 2 ELSE 1
    /\ UNCHANGED <<scan, objects, lastBlob, uploaded>>
    /\ UNCHANGED provVars

create(meme) ==
    /\ Serving /\ ~legacy
    /\ \E a \in WriteAnswers :
        /\ table' = IF a.applied THEN PutItem(table, MemeItem(meme)) ELSE table
        /\ lastOp' = Op("create", meme.meme_id, Some(meme), Prior(meme.meme_id), a.resp,
                        IF a.resp = "ok" THEN OkUnit ELSE Res("BackendError", None))
        /\ written' = [written EXCEPT ![meme.meme_id] =
                         IF a.resp = "ok" THEN Some(meme) ELSE None]
    /\ requests' = 1
    /\ UNCHANGED <<scan, objects, lastBlob, uploaded>>
    /\ UNCHANGED provVars

\* An absent item reported as RepoError::NotFound.
get_by_id_absent_is_error(id) ==
    /\ Serving /\ ~legacy
    /\ \E resp \in ReadAnswers :
        LET id_str == UuidToString(id)
            item == GetItem(table, S(id_str))
        IN  lastOp' = Op("get_by_id", id, None, Prior(id), resp,
                IF resp # "ok" THEN Res("BackendError", None)
                ELSE IF IsSome(item)
                THEN IF IsSome(item_to_meme(Unwrap(item)))
                     THEN Res("Ok", item_to_meme(Unwrap(item)))
                     ELSE Res("DataCorruption", None)
                ELSE Res("NotFound", None))
    /\ UNCHANGED <<table, written>>
    /\ requests' = 1
    /\ UNCHANGED <<scan, objects, lastBlob, uploaded>>
    /\ UNCHANGED provVars

\* A failed GetItem request reported as corrupt data.
get_by_id_failure_is_data_corruption(id) ==
    /\ Serving /\ ~legacy
    /\ \E resp \in ReadAnswers :
        LET id_str == UuidToString(id)
            item == GetItem(table, S(id_str))
        IN  lastOp' = Op("get_by_id", id, None, Prior(id), resp,
                IF resp # "ok" THEN Res("DataCorruption", None)
                ELSE IF IsSome(item)
                THEN IF IsSome(item_to_meme(Unwrap(item)))
                     THEN Res("Ok", item_to_meme(Unwrap(item)))
                     ELSE Res("DataCorruption", None)
                ELSE Res("Ok", None))
    /\ UNCHANGED <<table, written>>
    /\ requests' = 1
    /\ UNCHANGED <<scan, objects, lastBlob, uploaded>>
    /\ UNCHANGED provVars

get_by_id(id) ==
    /\ Serving /\ ~legacy
    /\ \E resp \in ReadAnswers :
        LET id_str == UuidToString(id)
            item == GetItem(table, S(id_str))
        IN  lastOp' = Op("get_by_id", id, None, Prior(id), resp,
                IF resp # "ok" THEN Res("BackendError", None)
                ELSE IF IsSome(item)
                THEN IF IsSome(item_to_meme(Unwrap(item)))
                     THEN Res("Ok", item_to_meme(Unwrap(item)))
                     ELSE Res("DataCorruption", None)
                ELSE Res("Ok", None))
    /\ UNCHANGED <<table, written>>
    /\ requests' = 1
    /\ UNCHANGED <<scan, objects, lastBlob, uploaded>>
    /\ UNCHANGED provVars

\* DeleteItem under the condition attribute_exists(meme_id): the backend
\* refuses when there is no item, and the refusal is reported as a backend
\* error.
delete_if_exists(id) ==
    /\ Serving /\ ~legacy
    /\ \E a \in WriteAnswers :
        LET id_str == UuidToString(id)
            refused == a.resp = "ok" /\ ~IsSome(GetItem(table, S(id_str)))
        IN
        /\ table' = IF a.applied THEN DeleteItem(table, S(id_str)) ELSE table
        /\ lastOp' = Op("delete", id, None, Prior(id),
                        IF refused THEN "ConditionalCheckFailedException" ELSE a.resp,
                        IF a.resp = "ok" /\ ~refused THEN OkUnit
                        ELSE Res("BackendError", None))
        /\ written' = [written EXCEPT ![id] = None]
    /\ requests' = 1
    /\ UNCHANGED <<scan, objects, lastBlob, uploaded>>
    /\ UNCHANGED provVars

delete(id) ==
    /\ Serving /\ ~legacy
    /\ \E a \in WriteAnswers :
        LET id_str == UuidToString(id) IN
        /\ table' = IF a.applied THEN DeleteItem(table, S(id_str)) ELSE table
        /\ lastOp' = Op("delete", id, None, Prior(id), a.resp,
                        IF a.resp = "ok" THEN OkUnit ELSE Res("BackendError", None))
        /\ written' = [written EXCEPT ![id] = None]
    /\ requests' = 1
    /\ UNCHANGED <<scan, objects, lastBlob, uploaded>>
    /\ UNCHANGED provVars

\* The first page taken for the whole table: the continuation token of the
\* response is ignored.
list_all_loop_first_page(pages, answers, last_evaluated_key, memes, sent) ==
    IF answers[sent + 1] # "ok"
    THEN [result |-> Res("BackendError", None), requests |-> sent + 1]
    ELSE LET resp == ScanPage(pages, last_evaluated_key)
             decoded == [i \in 1..Len(resp.items) |-> item_to_meme(resp.items[i])]
         IN  IF \E i \in DOMAIN decoded : ~IsSome(decoded[i])
             THEN [result |-> Res("DataCorruption", None), requests |-> sent + 1]
             ELSE [result |-> Res("Ok", memes \o [i \in DOMAIN decoded |-> Unwrap(decoded[i])]),
                   requests |-> sent + 1]

\* The loop of list_all: sent requests have been answered, memes holds the
\* records of the pages read, last_evaluated_key the token of the last page.
RECURSIVE list_all_loop(_, _, _, _, _)
list_all_loop(pages, answers, last_evaluated_key, memes, sent) ==
    IF answers[sent + 1] # "ok"
    THEN [result |-> Res("BackendError", None), requests |-> sent + 1]
    ELSE LET resp == ScanPage(pages, last_evaluated_key)
             decoded == [i \in 1..Len(resp.items) |-> item_to_meme(resp.items[i])]
         IN  IF \E i \in DOMAIN decoded : ~IsSome(decoded[i])
             THEN [result |-> Res("DataCorruption", None), requests |-> sent + 1]
             ELSE LET pushed == memes \o [i \in DOMAIN decoded |-> Unwrap(decoded[i])]
                  IN  IF ~IsSome(resp.last_evaluated_key)
                      THEN [result |-> Res("Ok", pushed), requests |-> sent + 1]
                      ELSE list_all_loop(pages, answers, resp.last_evaluated_key,
                                         pushed, sent + 1)

list_all ==
    /\ Serving /\ ~legacy
    /\ \E pages \in Paginations(table) : \E answers \in ScanAnswers(Len(pages)) :
        LET r == list_all_loop(pages, answers, None, <<>>, 0) IN
        /\ lastOp' = Op("list_all", NoId, None, None, answers[r.requests], r.result)
        /\ scan' = [pages |-> pages, answers |-> answers]
        /\ requests' = r.requests
    /\ UNCHANGED <<table, written, objects, lastBlob, uploaded>>
    /\ UNCHANGED provVars

----------------------------------------------------------------------------
(* db.rs: the functions main.rs calls *)

put_meme(meme) ==
    /\ Serving /\ legacy
    /\ \E a \in WriteAnswers :
        /\ table' = IF a.applied THEN PutItem(table, MemeItem(meme)) ELSE table
        /\ lastOp' = Op("put_meme", meme.meme_id, Some(meme), Prior(meme.meme_id), a.resp,
                        IF a.resp = "ok" THEN OkUnit ELSE Res("anyhow", None))
        /\ written' = [written EXCEPT ![meme.meme_id] =
                         IF a.resp = "ok" THEN Some(meme) ELSE None]
    /\ requests' = 1
    /\ UNCHANGED <<scan, objects, lastBlob, uploaded>>
    /\ UNCHANGED provVars

MemeIdStrings == [fmt : {"hyphenated", "upper"}, id : Uuids] \cup {Garbage}

get_meme(meme_id) ==
    /\ Serving /\ legacy
    /\ IF ~IsSome(Uuid_parse_str(meme_id))
       THEN lastOp' = Op("get_meme", NoId, None, None, "none", Res("Ok", None))
       ELSE \E resp \in ReadAnswers :
            LET item == GetItem(table, S(meme_id))
            IN  lastOp' = Op("get_meme", Unwrap(Uuid_parse_str(meme_id)), None,
                           Prior(Unwrap(Uuid_parse_str(meme_id))), resp,
                    IF resp # "ok" THEN Res("anyhow", None)
                    ELSE IF IsSome(item)
                    THEN IF IsSome(item_to_meme(Unwrap(item)))
                         THEN Res("Ok", item_to_meme(Unwrap(item)))
                         ELSE Res("anyhow", None)
                    ELSE Res("Ok", None))
    /\ UNCHANGED <<table, written>>
    /\ requests' = IF IsSome(Uuid_parse_str(meme_id)) THEN 1 ELSE 0
    /\ UNCHANGED <<scan, objects, lastBlob, uploaded>>
    /\ UNCHANGED provVars

\* The loop of list_memes: an item that does not decode is logged and left
\* out.
RECURSIVE list_memes_loop(_, _, _, _, _)
list_memes_loop(pages, answers, last_evaluated_key, memes, sent) ==
    IF answers[sent + 1] # "ok"
    THEN [result |-> Res("anyhow", None), requests |-> sent + 1]
    ELSE LET resp == ScanPage(pages, last_evaluated_key)
             decoded == [i \in 1..Len(resp.items) |-> item_to_meme(resp.items[i])]
             parsed == SelectSeq(decoded, IsSome)
             pushed == memes \o [i \in DOMAIN parsed |-> Unwrap(parsed[i])]
         IN  IF ~IsSome(resp.last_evaluated_key)
             THEN [result |-> Res("Ok", pushed), requests |-> sent + 1]
             ELSE list_memes_loop(pages, answers, resp.last_evaluated_key,
                                  pushed, sent + 1)

list_memes ==
    /\ Serving /\ legacy
    /\ \E pages \in Paginations(table) : \E answers \in ScanAnswers(Len(pages)) :
        LET r == list_memes_loop(pages, answers, None, <<>>, 0) IN
        /\ lastOp' = Op("list_memes", NoId, None, None, answers[r.requests], r.result)
        /\ scan' = [pages |-> pages, answers |-> answers]
        /\ requests' = r.requests
    /\ UNCHANGED <<table, written, objects, lastBlob, uploaded>>
    /\ UNCHANGED provVars

----------------------------------------------------------------------------
(* The enumerations one Scan request at a time.  A caller's task holds the *)
(* locals of the loop, and the tokens it sent and got so far.              *)

\* What a caller is doing: the operation it called, where the operation
\* stands, its argument, its local variables, what it returned, and the
\* number of its backend requests that failed.
Task(handler, pc, arg, local, status, faults) ==
    [handler |-> handler, pc |-> pc, arg |-> arg, local |-> local,
     status |-> status, faults |-> faults]

\* The callers of the handlers.
Callers == {"c1", "c2"}
NoTask == Task("none", "done", None, None, None, 0)
\* started: the table when the enumeration began; touched: the ids whose
\* item changed since.
ScanLocals(started) ==
    [memes |-> <<>>, last_evaluated_key |-> None, sent |-> <<>>, got |-> <<>>,
     started |-> started, touched |-> {}]

\* A request that never carries a token.
scan_request_from_start(last_evaluated_key) == None

\* The ExclusiveStartKey of the next request.
scan_request(last_evaluated_key) ==
    IF IsSome(last_evaluated_key) THEN last_evaluated_key ELSE None

\* A loop that also stops at a page with no items.
list_all_break_on_empty_page(resp) ==
    ~IsSome(resp.last_evaluated_key) \/ resp.items = <<>>

list_all_break(resp) == ~IsSome(resp.last_evaluated_key)

\* One turn of the loop of list_all: the request carried token, the backend
\* answered it with answer and, when it did not fail, with the page resp.
list_all_turn(c, token, answer, resp) ==
    /\ Serving /\ ~legacy
    /\ task[c].handler = "list_all" /\ task[c].pc = "loop"
    /\ LET l == [task[c].local EXCEPT !.sent = Append(@, token)]
           decoded == [i \in 1..Len(resp.items) |-> item_to_meme(resp.items[i])]
           heard == [l EXCEPT !.got = Append(@, resp.last_evaluated_key)]
       IN
       /\ task' = [task EXCEPT ![c] =
            IF answer # "ok"
            THEN Task("list_all", "done", None, l, Res("BackendError", None), 1)
            ELSE IF \E i \in DOMAIN decoded : ~IsSome(decoded[i])
            THEN Task("list_all", "done", None, heard, Res("DataCorruption", None), 0)
            ELSE LET pushed == l.memes \o [i \in DOMAIN decoded |-> Unwrap(decoded[i])]
                 IN  IF list_all_break(resp)
                     THEN Task("list_all", "done", None,
                               [heard EXCEPT !.memes = pushed,
                                             !.last_evaluated_key = resp.last_evaluated_key],
                               Res("Ok", pushed), 0)
                     ELSE Task("list_all", "loop", None,
                               [heard EXCEPT !.memes = pushed,
                                             !.last_evaluated_key = resp.last_evaluated_key],
                               None, 0)]
       /\ requests' = Len(l.sent)
    /\ UNCHANGED <<table, lastOp, written, scan, objects, lastBlob, uploaded>>
    /\ UNCHANGED provVars

\* One turn of the loop of list_memes.
list_memes_turn(c, token, answer, resp) ==
    /\ Serving /\ legacy
    /\ task[c].handler = "list_memes" /\ task[c].pc = "loop"
    /\ LET l == [task[c].local EXCEPT !.sent = Append(@, token)]
           decoded == [i \in 1..Len(resp.items) |-> item_to_meme(resp.items[i])]
           parsed == SelectSeq(decoded, IsSome)
           pushed == l.memes \o [i \in DOMAIN parsed |-> Unwrap(parsed[i])]
           heard == [l EXCEPT !.got = Append(@, resp.last_evaluated_key),
                              !.memes = pushed]
       IN
       /\ task' = [task EXCEPT ![c] =
            IF answer # "ok"
            THEN Task("list_memes", "done", None, l, Res("anyhow", None), 1)
            ELSE IF ~IsSome(resp.last_evaluated_key)
            THEN Task("list_memes", "done", None, heard, Res("Ok", pushed), 0)
            ELSE Task("list_memes", "loop", None,
                      [heard EXCEPT !.last_evaluated_key = resp.last_evaluated_key],
                      None, 0)]
       /\ requests' = Len(l.sent)
    /\ UNCHANGED <<table, lastOp, written, scan, objects, lastBlob, uploaded>>
    /\ UNCHANGED provVars

----------------------------------------------------------------------------
(* The blob backend: a bucket of objects by key.  An object written with   *)
(* no declared media type gets the backend's default.  A write request     *)
(* that fails with a timeout may have been carried out.                    *)

Bodies == {<<1, 2, 3>>, <<9>>}
ContentTypes == {"image/png", "image/jpeg"}
BackendDefaultContentType == "binary/octet-stream"

PutObject(objs, key, body, declared) ==
    [objs EXCEPT ![key] =
        Some([body |-> body,
              content_type |-> IF IsSome(declared) THEN Unwrap(declared)
                               ELSE BackendDefaultContentType])]
DeleteObject(objs, key) == [objs EXCEPT ![key] = None]

BlobFaults ==
    {Resp("TimeoutError", ""), Resp("DispatchFailure", ""),
     ServiceError("AccessDenied"), ServiceError("NoSuchBucket")}
GetObjectAnswers(objs, key) ==
    (IF IsSome(objs[key]) THEN {Success} ELSE {ServiceError("NoSuchKey")})
        \cup BlobFaults
BlobWriteAnswers ==
    {a \in [resp : {Success} \cup BlobFaults, applied : BOOLEAN] :
        /\ a.resp = Success => a.applied
        /\ a.applied => a.resp \in {Success, Resp("TimeoutError", "")}}

\* declared: the media type of the write request; prior: the bucket when the
\* call was made.
BlobOp(op, key, data, content_type, declared, backend, result, prior) ==
    [op |-> op, key |-> key, data |-> data, content_type |-> content_type,
     declared |-> declared, backend |-> backend, result |-> result,
     prior |-> prior]
NoBlobOp == BlobOp("none", "", <<>>, None, None, NoResp, OkUnit, <<>>)

----------------------------------------------------------------------------
(* storage.rs: S3FileStorage *)

upload(key, data, content_type) ==
    /\ Serving /\ ~legacy
    /\ \E a \in BlobWriteAnswers :
        LET ct_log == IF IsSome(content_type) THEN Unwrap(content_type)
                      ELSE "application/octet-stream"
        IN
        /\ objects' = IF a.applied THEN PutObject(objects, key, data, Some(ct_log))
                       ELSE objects
        /\ lastBlob' = BlobOp("upload", key, data, content_type, Some(ct_log), a.resp,
                              IF a.resp = Success THEN OkUnit
                              ELSE Res("UploadFailed", None),
                              objects)
        /\ uploaded' = [uploaded EXCEPT ![key] =
                          IF a.resp = Success
                          THEN Some([data |-> data, content_type |-> content_type,
                                     replaced |-> objects[key]])
                          ELSE None]
    /\ requests' = 1
    /\ UNCHANGED <<table, lastOp, written, scan>>
    /\ UNCHANGED provVars

\* The content type of the response left unread.
download_without_content_type(key) ==
    /\ Serving /\ ~legacy
    /\ \E resp \in GetObjectAnswers(objects, key) :
        lastBlob' = BlobOp("download", key, <<>>, None, None, resp,
                        IF resp = Success
                        THEN Res("Ok", [body |-> Unwrap(objects[key]).body,
                                        content_type |-> None])
                        ELSE IF resp.variant = "ServiceError" /\ resp.code = "NoSuchKey"
                        THEN Res("NotFound", key)
                        ELSE Res("BackendError", None),
                        objects)
    /\ requests' = 1
    /\ UNCHANGED <<table, lastOp, written, scan, objects, uploaded>>
    /\ UNCHANGED provVars

\* Every error answer of the service taken for the no-such-key signal.
download_service_error_is_not_found(key) ==
    /\ Serving /\ ~legacy
    /\ \E resp \in GetObjectAnswers(objects, key) :
        lastBlob' = BlobOp("download", key, <<>>, None, None, resp,
                        IF resp = Success
                        THEN Res("Ok", [body |-> Unwrap(objects[key]).body,
                                        content_type |->
                                            Some(Unwrap(objects[key]).content_type)])
                        ELSE IF resp.variant = "ServiceError"
                        THEN Res("NotFound", key)
                        ELSE Res("BackendError", None),
                        objects)
    /\ requests' = 1
    /\ UNCHANGED <<table, lastOp, written, scan, objects, uploaded>>
    /\ UNCHANGED provVars

download(key) ==
    /\ Serving /\ ~legacy
    /\ \E resp \in GetObjectAnswers(objects, key) :
        lastBlob' = BlobOp("download", key, <<>>, None, None, resp,
                        IF resp = Success
                        THEN Res("Ok", [body |-> Unwrap(objects[key]).body,
                                        content_type |->
                                            Some(Unwrap(objects[key]).content_type)])
                        ELSE IF resp.variant = "ServiceError" /\ resp.code = "NoSuchKey"
                        THEN Res("NotFound", key)
                        ELSE Res("BackendError", None),
                        objects)
    /\ requests' = 1
    /\ UNCHANGED <<table, lastOp, written, scan, objects, uploaded>>
    /\ UNCHANGED provVars

\* A delete that reports a key with no object as NotFound.
S3FileStorage_delete_must_exist(key) ==
    /\ Serving /\ ~legacy
    /\ \E a \in BlobWriteAnswers :
        /\ objects' = IF a.applied THEN DeleteObject(objects, key) ELSE objects
        /\ lastBlob' = BlobOp("delete", key, <<>>, None, None, a.resp,
                              IF a.resp # Success THEN Res("BackendError", None)
                              ELSE IF IsSome(objects[key]) THEN OkUnit
                              ELSE Res("NotFound", key),
                              objects)
        /\ uploaded' = [uploaded EXCEPT ![key] = None]
    /\ requests' = 1
    /\ UNCHANGED <<table, lastOp, written, scan>>
    /\ UNCHANGED provVars

S3FileStorage_delete(key) ==
    /\ Serving /\ ~legacy
    /\ \E a \in BlobWriteAnswers :
        /\ objects' = IF a.applied THEN DeleteObject(objects, key) ELSE objects
        /\ lastBlob' = BlobOp("delete", key, <<>>, None, None, a.resp,
                              IF a.resp = Success THEN OkUnit
                              ELSE Res("BackendError", None),
                              objects)
        /\ uploaded' = [uploaded EXCEPT ![key] = None]
    /\ requests' = 1
    /\ UNCHANGED <<table, lastOp, written, scan>>
    /\ UNCHANGED provVars

----------------------------------------------------------------------------
(* handlers.rs and main.rs: the upload handlers, one backend request at a  *)
(* time                                                                    *)

\* The multipart form of an upload: the fields it has, the image's bytes
\* and the media type the image part declares.
Forms ==
    [title : {None, Some("t1")}, description : {Some("d1")},
     image : {None, Some(<<>>), Some(<<9>>)},
     content_type : {None, Some("image/jpeg")}]

\* format!("{}.{}", meme_id, extension) gives every id a key of its own;
\* KeyedIds are the ids whose key is among ImageKeys.
KeyedIds == Uuids \cap (1..Cardinality(ImageKeys))
image_key_of(meme_id) == <<"k1.png", "k2.png">>[meme_id]

\* Uuid::new_v4 for a request of caller c: an id that nothing holds, neither
\* a store nor another request.
new_v4(c) ==
    {u \in KeyedIds :
        /\ LiveItems(table, u) = {}
        /\ objects[image_key_of(u)] = None
        /\ \A o \in Callers \ {c} :
            (/\ task[o].handler \in {"upload_meme", "upload_meme_handler"}
             /\ task[o].status # Some(400))
                => task[o].local.meme.meme_id # u}

\* The fields read and validated: what an upload does first.  Its locals
\* from then on are the record, the image and its media type, and the
\* results of its two backend calls.
ReadForm(handler, c, form, meme_id) ==
    task' = [task EXCEPT ![c] =
        IF ~IsSome(form.title) \/ ~IsSome(form.description) \/ ~IsSome(form.image)
        THEN Task(handler, "done", form, None, Some(400), 0)
        ELSE IF Unwrap(form.image) = <<>>
        THEN Task(handler, "done", form, None, Some(400), 0)
        ELSE Task(handler, "upload", form,
                  [meme |-> [meme_id |-> meme_id, title |-> Unwrap(form.title),
                             description |-> Unwrap(form.description),
                             image_key |-> image_key_of(meme_id)],
                   image_data |-> Unwrap(form.image),
                   final_content_type |->
                        IF IsSome(form.content_type) THEN Unwrap(form.content_type)
                        ELSE "image/png",
                   stored |-> None, recorded |-> None],
                  None, 0)]

upload_meme_begin(c, form) ==
    /\ Serving /\ ~legacy
    /\ task[c].pc = "done"
    /\ \E meme_id \in new_v4(c) : ReadForm("upload_meme", c, form, meme_id)
    /\ UNCHANGED <<table, lastOp, written, scan, requests, objects, lastBlob, uploaded>>
    /\ UNCHANGED provVars

\* An upload that goes on to the metadata whatever the blob store said.
after_upload_ignoring_errors(result) == "create"

\* The ? on the result of the blob upload.
after_upload(result) == IF result.tag = "Ok" THEN "create" ELSE "done"

upload_meme_upload(c) ==
    /\ task[c].handler = "upload_meme" /\ task[c].pc = "upload"
    /\ upload(task[c].local.meme.image_key, task[c].local.image_data,
              Some(task[c].local.final_content_type))
    /\ task' = [task EXCEPT ![c] =
        [@ EXCEPT !.pc = after_upload(lastBlob'.result),
                  !.local.stored = Some(lastBlob'.result),
                  !.status = IF after_upload(lastBlob'.result) = "done" THEN Some(500) ELSE None,
                  !.faults = IF lastBlob'.backend # Success THEN 1 ELSE 0]]

upload_meme_create(c) ==
    /\ task[c].handler = "upload_meme" /\ task[c].pc = "create"
    /\ create(task[c].local.meme)
    /\ task' = [task EXCEPT ![c] =
        [@ EXCEPT !.pc = "done",
                  !.local.recorded = Some(lastOp'.result),
                  !.status = IF lastOp'.result.tag = "Ok" THEN Some(201) ELSE Some(500),
                  !.faults = @ + IF lastOp'.backend # "ok" THEN 1 ELSE 0]]

\* main.rs: PutObject with no media type.
put_object(key, data) ==
    /\ Serving /\ legacy
    /\ \E a \in BlobWriteAnswers :
        /\ objects' = IF a.applied THEN PutObject(objects, key, data, None) ELSE objects
        /\ lastBlob' = BlobOp("put_object", key, data, None, None, a.resp,
                              IF a.resp = Success THEN OkUnit
                              ELSE Res("AwsSdkError", None),
                              objects)
        /\ uploaded' = [uploaded EXCEPT ![key] =
                          IF a.resp = Success
                          THEN Some([data |-> data, content_type |-> None,
                                     replaced |-> objects[key]])
                          ELSE None]
    /\ requests' = 1
    /\ UNCHANGED <<table, lastOp, written, scan>>
    /\ UNCHANGED provVars

upload_meme_handler_begin(c, form) ==
    /\ Serving /\ legacy
    /\ task[c].pc = "done"
    /\ \E meme_id \in new_v4(c) : ReadForm("upload_meme_handler", c, form, meme_id)
    /\ UNCHANGED <<table, lastOp, written, scan, requests, objects, lastBlob, uploaded>>
    /\ UNCHANGED provVars

upload_meme_handler_put_object(c) ==
    /\ task[c].handler = "upload_meme_handler" /\ task[c].pc = "upload"
    /\ put_object(task[c].local.meme.image_key, task[c].local.image_data)
    /\ task' = [task EXCEPT ![c] =
        [@ EXCEPT !.pc = IF lastBlob'.result.tag = "Ok" THEN "create" ELSE "done",
                  !.local.stored = Some(lastBlob'.result),
                  !.status = IF lastBlob'.result.tag = "Ok" THEN None ELSE Some(500),
                  !.faults = IF lastBlob'.backend # Success THEN 1 ELSE 0]]

upload_meme_handler_put_meme(c) ==
    /\ task[c].handler = "upload_meme_handler" /\ task[c].pc = "create"
    /\ put_meme(task[c].local.meme)
    /\ task' = [task EXCEPT ![c] =
        [@ EXCEPT !.pc = "done",
                  !.local.recorded = Some(lastOp'.result),
                  !.status = IF lastOp'.result.tag = "Ok" THEN Some(201) ELSE Some(500),
                  !.faults = @ + IF lastOp'.backend # "ok" THEN 1 ELSE 0]]

----------------------------------------------------------------------------
(* handlers.rs and main.rs: the handlers of /meme/{id}                     *)

\* The locals of a request for one record: the id its path spells, the
\* results of its backend calls in the order it makes them, and the number
\* of backend requests it sent.
IdLocals(meme_id) ==
    [meme_id |-> meme_id, looked |-> None, stored |-> None, recorded |-> None,
     sent |-> 0]

\* The request answered before any backend call.
Reject(handler, c, id_str, status) ==
    /\ task' = [task EXCEPT ![c] =
                  Task(handler, "done", id_str, IdLocals(None), Some(status), 0)]
    /\ requests' = 0
    /\ UNCHANGED <<table, lastOp, written, scan, objects, lastBlob, uploaded>>
    /\ UNCHANGED provVars

\* The status of a lookup: the record as JSON, MemeNotFound, or the error
\* of the repository.
LookupStatus(result) ==
    IF result.tag # "Ok" THEN 500
    ELSE IF IsSome(result.value) THEN 200 ELSE 404

\* handlers.rs: get_meme.
handlers_get_meme(c, id_str) ==
    /\ Serving /\ ~legacy
    /\ task[c] = NoTask
    /\ IF ~IsSome(Uuid_parse_str(id_str))
       THEN Reject("handlers_get_meme", c, id_str, 400)
       ELSE /\ get_by_id(Unwrap(Uuid_parse_str(id_str)))
            /\ task' = [task EXCEPT ![c] =
                Task("handlers_get_meme", "done", id_str,
                     [IdLocals(Uuid_parse_str(id_str)) EXCEPT
                        !.looked = Some(lastOp'.result), !.sent = 1],
                     Some(LookupStatus(lastOp'.result)),
                     IF lastOp'.backend \in RequestFaults THEN 1 ELSE 0)]

\* main.rs: get_meme_handler, which leaves the parsing to get_meme.
get_meme_handler(c, id_str) ==
    /\ Serving /\ legacy
    /\ task[c] = NoTask
    /\ get_meme(id_str)
    /\ task' = [task EXCEPT ![c] =
        Task("get_meme_handler", "done", id_str,
             [IdLocals(Uuid_parse_str(id_str)) EXCEPT
                !.looked = Some(lastOp'.result), !.sent = requests'],
             Some(LookupStatus(lastOp'.result)),
             IF lastOp'.backend \in RequestFaults THEN 1 ELSE 0)]

\* handlers.rs: delete_meme, up to the answer of get_by_id.
delete_meme_begin(c, id_str) ==
    /\ Serving /\ ~legacy
    /\ task[c] = NoTask
    /\ IF ~IsSome(Uuid_parse_str(id_str))
       THEN Reject("delete_meme", c, id_str, 400)
       ELSE /\ get_by_id(Unwrap(Uuid_parse_str(id_str)))
            /\ task' = [task EXCEPT ![c] =
                LET found == LookupStatus(lastOp'.result) = 200 IN
                Task("delete_meme", IF found THEN "blob" ELSE "done", id_str,
                     [IdLocals(Uuid_parse_str(id_str)) EXCEPT
                        !.looked = Some(lastOp'.result), !.sent = 1],
                     IF found THEN None ELSE Some(LookupStatus(lastOp'.result)),
                     IF lastOp'.backend \in RequestFaults THEN 1 ELSE 0)]

\* A delete that goes on to the metadata whatever the blob store said.
after_storage_delete_ignoring_errors(result) == "repo"

\* The match on the result of file_storage.delete: Ok and NotFound go on to
\* the metadata, any other error is returned.
after_storage_delete(result) ==
    IF result.tag \in {"Ok", "NotFound"} THEN "repo" ELSE "done"

\* delete_meme: the image deleted from the blob store.
delete_meme_blob(c) ==
    /\ task[c].handler = "delete_meme" /\ task[c].pc = "blob"
    /\ S3FileStorage_delete(Unwrap(Unwrap(task[c].local.looked).value).image_key)
    /\ task' = [task EXCEPT ![c] =
        [@ EXCEPT !.pc = after_storage_delete(lastBlob'.result),
                  !.local.stored = Some(lastBlob'.result),
                  !.local.sent = @ + 1,
                  !.status = IF after_storage_delete(lastBlob'.result) = "done"
                             THEN Some(500) ELSE None,
                  !.faults = @ + IF lastBlob'.backend # Success THEN 1 ELSE 0]]

\* delete_meme: the record deleted from the repository.
delete_meme_repo(c) ==
    /\ task[c].handler = "delete_meme" /\ task[c].pc = "repo"
    /\ delete(Unwrap(task[c].local.meme_id))
    /\ task' = [task EXCEPT ![c] =
        [@ EXCEPT !.pc = "done",
                  !.local.recorded = Some(lastOp'.result),
                  !.local.sent = @ + 1,
                  !.status = IF lastOp'.result.tag = "Ok" THEN Some(204) ELSE Some(500),
                  !.faults = @ + IF lastOp'.backend \in RequestFaults THEN 1 ELSE 0]]

----------------------------------------------------------------------------
(* errors.rs and error_types.rs: failures turned into HTTP responses.      *)
(* A failure carries the message written where it was raised and the text  *)
(* of the cause under it; a response is a status and the pieces its        *)
(* message is formatted from.                                              *)

Messages == {"message-1", "message-2"}
Causes == {"cause-1", "cause-2"}
Failure(type, variant, message, source) ==
    [type |-> type, variant |-> variant, message |-> message, source |-> source]
\* The failures of the repository, of the blob store and of initialization.
CoreFailures ==
    {Failure("RepoError", "BackendError", m, s) : m \in Messages, s \in Causes}
    \cup {Failure("RepoError", "DataCorruption", m, "") : m \in Messages}
    \cup {Failure("RepoError", "NotFound", m, "") : m \in Messages}
    \cup {Failure("StorageError", "UploadFailed", m, "") : m \in Messages}
    \cup {Failure("StorageError", "BackendError", m, s) : m \in Messages, s \in Causes}
    \cup {Failure("StorageError", "NotFound", m, "") : m \in Messages}
    \cup {Failure("AppError", "InitError", m, "") : m \in Messages}
    \cup {Failure("AppError", "ConfigError", m, "") : m \in Messages}

\* What main.rs gets from db.rs and from the SDK: an anyhow error, with the
\* context db.rs attached and the SDK's error under it or with a message
\* alone, and the SdkError of a request the handler sent itself.
LegacyFailures ==
    {Failure("anyhow", "context", m, s) : m \in Messages, s \in Causes}
    \cup {Failure("anyhow", "msg", m, "") : m \in Messages}
    \cup {Failure("SdkError", k, "", s) : k \in {"TimeoutError", "DispatchFailure", "ServiceError"}, s \in Causes}

\* Display of an anyhow error prints its outermost message, Display of an
\* SdkError the name of its kind.
Display(e) ==
    IF e.type = "anyhow" THEN e.message
    ELSE IF e.variant = "TimeoutError" THEN "request has timed out"
    ELSE IF e.variant = "DispatchFailure" THEN "dispatch failure"
    ELSE "service error"

\* errors.rs: From<RepoError> and From<StorageError> for AppError.
AppError_from(err) ==
    IF err.type = "RepoError"
    THEN IF err.variant = "NotFound" THEN [variant |-> "MemeNotFound", inner |-> err]
         ELSE [variant |-> "RepositoryError", inner |-> err]
    ELSE IF err.type = "StorageError"
    THEN IF err.variant = "NotFound" THEN [variant |-> "ImageNotFound", inner |-> err]
         ELSE [variant |-> "StorageError", inner |-> err]
    ELSE [variant |-> err.variant, inner |-> err]

\* errors.rs: AppError::into_response.
errors_into_response(self) ==
    IF self.variant = "MemeNotFound"
    THEN [status |-> 404, error_message |-> <<"Meme metadata not found with ID: ", self.inner.message>>]
    ELSE IF self.variant = "ImageNotFound"
    THEN [status |-> 404, error_message |-> <<"Image not found with key: ", self.inner.message>>]
    ELSE IF self.variant = "RepositoryError"
    THEN [status |-> 500, error_message |-> <<"Database operation failed">>]
    ELSE IF self.variant = "StorageError"
    THEN [status |-> 500, error_message |-> <<"File storage operation failed">>]
    ELSE IF self.variant = "ConfigError"
    THEN [status |-> 500, error_message |-> <<"Server configuration error">>]
    ELSE IF self.variant = "InitError"
    THEN [status |-> 500, error_message |-> <<"Server initialization error">>]
    ELSE [status |-> 500, error_message |-> <<"An internal server error occurred">>]

\* error_types.rs: From<anyhow::Error> and From<SdkError<E>> for AppError.
error_types_AppError_from(err) ==
    IF err.type = "anyhow"
    THEN [variant |-> "DatabaseError", text |-> <<Display(err)>>]
    ELSE [variant |-> "AwsSdkError", text |-> <<"AWS SDK Error: ", Display(err)>>]

\* error_types.rs: AppError::into_response.
error_types_into_response(self) ==
    IF self.variant = "DatabaseError"
    THEN [status |-> 500, error_message |-> <<"Database operation failed: ">> \o self.text]
    ELSE IF self.variant = "AwsSdkError"
    THEN [status |-> 500, error_message |-> <<"AWS SDK error: ">> \o self.text]
    ELSE [status |-> 500, error_message |-> <<"Internal server error: ">> \o self.text]

\* A handler of the router of startup.rs returning Err(err).
respond(c, err) ==
    /\ Serving /\ ~legacy
    /\ task[c] = NoTask
    /\ task' = [task EXCEPT ![c] =
        Task("into_response", "done", err, None,
             Some(errors_into_response(AppError_from(err))), 1)]
    /\ UNCHANGED <<table, lastOp, written, scan, requests, objects, lastBlob, uploaded>>
    /\ UNCHANGED provVars

\* A handler of main.rs returning Err(err).
respond_legacy(c, err) ==
    /\ Serving /\ legacy
    /\ task[c] = NoTask
    /\ task' = [task EXCEPT ![c] =
        Task("into_response", "done", err, None,
             Some(error_types_into_response(error_types_AppError_from(err))), 1)]
    /\ UNCHANGED <<table, lastOp, written, scan, requests, objects, lastBlob, uploaded>>
    /\ UNCHANGED provVars

\* The process dies and comes back: every request in flight is dropped, and
\* the two stores keep what they hold.
Crash ==
    /\ \E c \in Callers : task[c].pc # "done"
    /\ task' = [c \in Callers |->
                  IF task[c].pc # "done" THEN [task[c] EXCEPT !.pc = "done", !.status = None]
                  ELSE task[c]]
    /\ UNCHANGED <<table, lastOp, written, scan, requests, objects, lastBlob, uploaded>>
    /\ UNCHANGED provVars

----------------------------------------------------------------------------
(* Specifications *)


FreshRepo ==
    /\ table = {}
    /\ lastOp = NoOp
    /\ written = [u \in Uuids |-> None]
    /\ scan = NoScan
    /\ requests = 0
    /\ objects = [k \in ImageKeys |-> None]
    /\ lastBlob = NoBlobOp
    /\ uploaded = [k \in ImageKeys |-> None]
    /\ task = [c \in Callers |-> NoTask]

Booting(hosts) ==
    /\ created = [r \in Resources |-> IF exists[r] THEN 1 ELSE 0]
    /\ phase = [p \in hosts |-> "table"]
    /\ attempts = [p \in hosts |-> [r \in Resources |-> 0]]
    /\ transients = [p \in hosts |-> [r \in Resources |-> 0]]
    /\ elapsed = [p \in hosts |-> 0]
    /\ interval = [p \in hosts |-> InitialInterval]
    /\ wait = [p \in hosts |-> 0]
    /\ lastResp = [p \in hosts |-> [r \in Resources |-> NoResp]]
    /\ outcome = [p \in hosts |-> [r \in Resources |-> Pending]]
    /\ served = [p \in hosts |-> 0]
    /\ bucketReq = [p \in hosts |-> <<"NoRequest">>]

\* One host starts against a backend with any fault plan; the resources may
\* be there already from an earlier start.
Init ==
    /\ legacy \in BOOLEAN
    /\ region \in IF legacy THEN {"ca-central-1"} ELSE {"us-east-1", "ca-central-1"}
    /\ plan \in [Resources -> [flaky : 0..MaxFaults, tail : Tails]]
    /\ exists \in [Resources -> BOOLEAN]
    /\ Booting(Hosts)
    /\ FreshRepo

Next ==
    \/ \E p \in Hosts : try_create_dynamodb_table(p)
    \/ \E p \in Hosts : try_create_s3_bucket(p)
    \/ \E p \in Hosts : create_memes_table(p)
    \/ \E p \in Hosts : ensure_s3_bucket_exists(p)
    \/ \E p \in Hosts : Serve(p)

Spec == Init /\ [][Next]_vars

\* One host of startup.rs starts against a backend that has neither
\* resource and that recovers from its transient failures or never does.
\* The host is scheduled until its provisioning has returned.
LiveInit ==
    /\ legacy = FALSE
    /\ region = "ca-central-1"
    /\ plan \in [Resources -> [flaky : 0..MaxFaults, tail : {"healthy", "transient"}]]
    /\ exists = [r \in Resources |-> FALSE]
    /\ Booting(Hosts)
    /\ FreshRepo

LiveNext ==
    \/ \E p \in Hosts : try_create_dynamodb_table(p)
    \/ \E p \in Hosts : try_create_s3_bucket(p)
    \/ \E p \in Hosts : Serve(p)

LiveSpec ==
    /\ LiveInit
    /\ [][LiveNext]_vars
    /\ \A p \in Hosts : WF_vars(try_create_dynamodb_table(p) \/ try_create_s3_bucket(p))

\* Two hosts start at once against a backend that has neither resource and
\* recovers after at most MaxRaceFaults transient failures.
RaceInit ==
    /\ legacy = FALSE
    /\ region = "ca-central-1"
    /\ plan \in [Resources -> [flaky : 0..MaxRaceFaults, tail : {"healthy"}]]
    /\ exists = [r \in Resources |-> FALSE]
    /\ Booting(RaceHosts)
    /\ FreshRepo

RaceNext ==
    \/ \E p \in RaceHosts : try_create_dynamodb_table(p)
    \/ \E p \in RaceHosts : try_create_s3_bucket(p)

RaceSpec == RaceInit /\ [][RaceNext]_vars

\* The repository behind a host that is serving.
Provisioned ==
    /\ plan = [r \in Resources |-> [flaky |-> 0, tail |-> "healthy"]]
    /\ exists = [r \in Resources |-> TRUE]
    /\ created = [r \in Resources |-> 1]
    /\ phase = [p \in Hosts |-> "serving"]
    /\ attempts = [p \in Hosts |-> [r \in Resources |-> 1]]
    /\ transients = [p \in Hosts |-> [r \in Resources |-> 0]]
    /\ elapsed = [p \in Hosts |-> 0]
    /\ interval = [p \in Hosts |-> InitialInterval]
    /\ wait = [p \in Hosts |-> 0]
    /\ lastResp = [p \in Hosts |-> [r \in Resources |-> Success]]
    /\ outcome = [p \in Hosts |-> [r \in Resources |-> OkResult]]
    /\ served = [p \in Hosts |-> 0]
    /\ region = "ca-central-1"
    /\ bucketReq = [p \in Hosts |-> bucket_config(region)]

RepoInit ==
    /\ legacy \in BOOLEAN
    /\ Provisioned
    /\ FreshRepo

RepoNext ==
    \/ \E meme \in Memes : create(meme) /\ UNCHANGED task
    \/ \E id \in Uuids : get_by_id(id) /\ UNCHANGED task
    \/ \E id \in Uuids : delete(id) /\ UNCHANGED task
    \/ \E meme \in Memes : put_meme(meme) /\ UNCHANGED task
    \/ \E s \in MemeIdStrings : get_meme(s) /\ UNCHANGED task

RepoSpec == RepoInit /\ [][RepoNext]_vars

\* One call of any operation of the repository or of the blob store, on a
\* table that holds any of the sample items and a bucket that holds the
\* sample object at any of the keys.
OptionalContentTypes == {None} \cup {Some(ct) : ct \in ContentTypes}
SampleObject == [body |-> <<1, 2, 3>>, content_type |-> "image/png"]
StoredBuckets == [ImageKeys -> {None, Some(SampleObject)}]
Idle == lastOp = NoOp /\ lastBlob = NoBlobOp

CallInit ==
    /\ legacy = FALSE
    /\ Provisioned
    /\ table \in StoredTables
    /\ objects \in StoredBuckets
    /\ lastOp = NoOp
    /\ written = [u \in Uuids |-> None]
    /\ scan = NoScan
    /\ requests = 0
    /\ lastBlob = NoBlobOp
    /\ uploaded = [k \in ImageKeys |-> None]
    /\ task = [c \in Callers |-> NoTask]

CallNext ==
    \/ \E meme \in Memes : Idle /\ create(meme) /\ UNCHANGED task
    \/ \E id \in Uuids : Idle /\ get_by_id(id) /\ UNCHANGED task
    \/ Idle /\ list_all /\ UNCHANGED task
    \/ \E id \in Uuids : Idle /\ delete(id) /\ UNCHANGED task
    \/ \E key \in ImageKeys, data \in Bodies, ct \in OptionalContentTypes :
            Idle /\ upload(key, data, ct) /\ UNCHANGED task
    \/ \E key \in ImageKeys : Idle /\ download(key) /\ UNCHANGED task
    \/ \E key \in ImageKeys : Idle /\ S3FileStorage_delete(key) /\ UNCHANGED task

CallSpec == CallInit /\ [][CallNext]_vars

\* The blob store behind a host that is serving.
BlobInit ==
    /\ legacy = FALSE
    /\ Provisioned
    /\ FreshRepo

BlobNext ==
    \/ \E key \in ImageKeys, data \in Bodies, ct \in OptionalContentTypes :
            upload(key, data, ct) /\ UNCHANGED task
    \/ \E key \in ImageKeys : download(key) /\ UNCHANGED task
    \/ \E key \in ImageKeys : S3FileStorage_delete(key) /\ UNCHANGED task

BlobSpec == BlobInit /\ [][BlobNext]_vars

\* The repository reading a table that holds any of the sample items.  The
\* reads leave the table alone and take nothing from an earlier call, so one
\* call is made on each table.
ScanInit ==
    /\ legacy \in BOOLEAN
    /\ Provisioned
    /\ table \in StoredTables
    /\ lastOp = NoOp
    /\ written = [u \in Uuids |-> None]
    /\ scan = NoScan
    /\ requests = 0
    /\ objects = [k \in ImageKeys |-> None]
    /\ lastBlob = NoBlobOp
    /\ uploaded = [k \in ImageKeys |-> None]
    /\ task = [c \in Callers |-> NoTask]

ScanNext ==
    \/ \E id \in Uuids : lastOp = NoOp /\ get_by_id(id) /\ UNCHANGED task
    \/ lastOp = NoOp /\ list_all /\ UNCHANGED task
    \/ \E s \in MemeIdStrings : lastOp = NoOp /\ get_meme(s) /\ UNCHANGED task
    \/ lastOp = NoOp /\ list_memes /\ UNCHANGED task

ScanSpec == ScanInit /\ [][ScanNext]_vars

\* Two callers, each with one call of create in flight: the backend takes
\* the two PutItem requests in either order.
create_call(c) ==
    /\ task[c].handler = "create" /\ task[c].pc = "call"
    /\ create(task[c].arg)
    /\ task' = [task EXCEPT ![c] =
                    Task("create", "done", task[c].arg, None, lastOp'.result,
                         IF lastOp'.backend \in RequestFaults THEN 1 ELSE 0)]

WriteRaceInit ==
    /\ legacy = FALSE
    /\ Provisioned
    /\ table \in {{}, {MemeItem(SampleMeme(1))}}
    /\ lastOp = NoOp
    /\ written = [u \in Uuids |-> None]
    /\ scan = NoScan
    /\ requests = 0
    /\ objects = [k \in ImageKeys |-> None]
    /\ lastBlob = NoBlobOp
    /\ uploaded = [k \in ImageKeys |-> None]
    /\ task \in [Callers -> {Task("create", "call", meme, None, None, 0) : meme \in Memes}]

WriteRaceNext ==
    \/ \E c \in Callers : create_call(c)

WriteRaceSpec == WriteRaceInit /\ [][WriteRaceNext]_vars

\* One enumeration of a table that holds any of the sample items, served in
\* the pages and with the answers chosen at the start.
PageInit ==
    /\ legacy \in BOOLEAN
    /\ Provisioned
    /\ table \in StoredTables
    /\ lastOp = NoOp
    /\ written = [u \in Uuids |-> None]
    /\ scan \in UNION {[pages : {pages}, answers : ScanAnswers(Len(pages))] :
                        pages \in Paginations(table)}
    /\ requests = 0
    /\ objects = [k \in ImageKeys |-> None]
    /\ lastBlob = NoBlobOp
    /\ uploaded = [k \in ImageKeys |-> None]
    /\ task = [c \in Callers |->
                 IF c = "c1"
                 THEN Task(IF legacy THEN "list_memes" ELSE "list_all", "loop",
                           None, ScanLocals(table), None, 0)
                 ELSE NoTask]

PageNext ==
    \/ \E c \in Callers :
          list_all_turn(c, scan_request(task[c].local.last_evaluated_key),
                        scan.answers[Len(task[c].local.sent) + 1],
                        ScanPage(scan.pages, scan_request(task[c].local.last_evaluated_key)))
    \/ \E c \in Callers :
          list_memes_turn(c, scan_request(task[c].local.last_evaluated_key),
                          scan.answers[Len(task[c].local.sent) + 1],
                          ScanPage(scan.pages, scan_request(task[c].local.last_evaluated_key)))

PageSpec == PageInit /\ [][PageNext]_vars

\* Uploads by two callers on stores that start empty, with the process
\* crashing at any point.
UploadNext ==
    \/ \E c \in Callers, form \in Forms : upload_meme_begin(c, form)
    \/ \E c \in Callers : upload_meme_upload(c)
    \/ \E c \in Callers : upload_meme_create(c)
    \/ \E c \in Callers, form \in Forms : upload_meme_handler_begin(c, form)
    \/ \E c \in Callers : upload_meme_handler_put_object(c)
    \/ \E c \in Callers : upload_meme_handler_put_meme(c)
    \/ Crash

UploadSpec == RepoInit /\ [][UploadNext]_vars

\* One request for a record by each caller, on stores that hold, for any of
\* the ids, a record and the object of its key.
DeleteInit ==
    /\ legacy \in BOOLEAN
    /\ Provisioned
    /\ \E held \in SUBSET KeyedIds :
        /\ table = {MemeItem([SampleMeme(u) EXCEPT !.image_key = image_key_of(u)]) : u \in held}
        /\ objects = [k \in ImageKeys |->
                        IF \E u \in held : image_key_of(u) = k
                        THEN Some(SampleObject) ELSE None]
    /\ lastOp = NoOp
    /\ written = [u \in Uuids |-> None]
    /\ scan = NoScan
    /\ requests = 0
    /\ lastBlob = NoBlobOp
    /\ uploaded = [k \in ImageKeys |-> None]
    /\ task = [c \in Callers |-> NoTask]

DeleteNext ==
    \/ \E c \in Callers, id_str \in MemeIdStrings : handlers_get_meme(c, id_str)
    \/ \E c \in Callers, id_str \in MemeIdStrings : get_meme_handler(c, id_str)
    \/ \E c \in Callers, id_str \in MemeIdStrings : delete_meme_begin(c, id_str)
    \/ \E c \in Callers : delete_meme_blob(c)
    \/ \E c \in Callers : delete_meme_repo(c)

DeleteSpec == DeleteInit /\ [][DeleteNext]_vars

\* Two requests that fail, each with any of the failures.
ErrorNext ==
    \/ \E c \in Callers, err \in CoreFailures : respond(c, err)
    \/ \E c \in Callers, err \in LegacyFailures : respond_legacy(c, err)

ErrorSpec == RepoInit /\ [][ErrorNext]_vars

\* An enumeration by one caller while other callers create and delete; the
\* enumeration notes the ids whose item changed while it ran.  The writes
\* are the ones the backend carries out and answers.
Touched(id) ==
    [c \in Callers |->
        IF task[c].handler = "list_all" /\ task[c].pc = "loop" /\ table' # table
        THEN [task[c] EXCEPT !.local.touched = @ \cup {id}]
        ELSE task[c]]

LiveScanInit ==
    /\ legacy = FALSE
    /\ Provisioned
    /\ table \in {{}, {MemeItem(SampleMeme(u)) : u \in Uuids}}
    /\ lastOp = NoOp
    /\ written = [u \in Uuids |-> None]
    /\ scan = NoScan
    /\ requests = 0
    /\ objects = [k \in ImageKeys |-> None]
    /\ lastBlob = NoBlobOp
    /\ uploaded = [k \in ImageKeys |-> None]
    /\ task = [c \in Callers |->
                 IF c = "c1"
                 THEN Task("list_all", "loop", None, ScanLocals(table), None, 0)
                 ELSE NoTask]

LiveScanNext ==
    \/ \E c \in Callers, answer \in {"ok"} \cup RequestFaults :
          /\ task[c].handler = "list_all"
          /\ \E resp \in LiveScan(table, scan_request(task[c].local.last_evaluated_key)) :
            list_all_turn(c, scan_request(task[c].local.last_evaluated_key), answer, resp)
    \/ \E meme \in {m \in Memes : m.image_key = "k1.png"} :
          /\ \E s \in Callers : task[s].pc = "loop"
          /\ create(meme) /\ lastOp'.backend = "ok"
          /\ task' = Touched(meme.meme_id)
    \/ \E id \in Uuids :
          /\ \E s \in Callers : task[s].pc = "loop"
          /\ delete(id) /\ lastOp'.backend = "ok"
          /\ task' = Touched(id)

LiveScanSpec == LiveScanInit /\ [][LiveScanNext]_vars

----------------------------------------------------------------------------
(* Claims about the provisioner *)

HostsUp == DOMAIN phase
Returned(p, r) == outcome[p][r].kind # "Pending"

\* C1: a permanent failure of the creation request ends the provisioning at
\* once: the operation has returned InitError, and when no transient failure
\* came before it exactly one creation request was issued.
C1_PermanentFailureIsNotRetried ==
    \A p \in HostsUp, r \in Resources :
        (~legacy /\ IsPermanentFault(lastResp[p][r]))
            => /\ outcome[p][r].kind = "InitError"
               /\ transients[p][r] = 0 => attempts[p][r] = 1

\* C2: when the creation request succeeds after k transient failures the
\* provisioning returns Ok and has issued k+1 requests, and the provisioning
\* gives up on a transient failure only when the retry budget is exhausted.
C2_TransientThenSuccess ==
    \A p \in HostsUp, r \in Resources :
        ~legacy =>
            /\ lastResp[p][r] = Success
                => /\ outcome[p][r] = OkResult
                   /\ attempts[p][r] = transients[p][r] + 1
            /\ (outcome[p][r].kind = "InitError" /\ IsTransientFault(lastResp[p][r]))
                => \/ elapsed[p] > MaxElapsedTime
                   \/ elapsed[p] + wait[p] > MaxElapsedTime

C2_Witness ==
    \E p \in HostsUp, r \in Resources :
        /\ ~legacy
        /\ lastResp[p][r] = Success
        /\ transients[p][r] = 2
        /\ attempts[p][r] = 3
        /\ outcome[p][r] = OkResult

\* C3: whenever the backend answers a creation request with its
\* already-exists signal, the provisioning has returned Ok.
C3_AlreadyExistsIsOk ==
    \A p \in HostsUp, r \in Resources :
        lastResp[p][r] \in AlreadyExistsSignals(r) => outcome[p][r] = OkResult

C3_Witness ==
    \E p \in HostsUp :
        /\ lastResp[p]["table"] = ServiceError("ResourceInUseException")
        /\ lastResp[p]["bucket"] = ServiceError("BucketAlreadyExists")
        /\ outcome[p]["table"] = OkResult
        /\ outcome[p]["bucket"] = OkResult
        /\ phase[p] = "serving"

\* C4: against a backend that answers every creation request with a
\* transient failure, the provisioning in the end gives up: the host has
\* exited, the retry budget of 15 s is exhausted, and the operation has
\* returned InitError built from the last transient failure.
C4_AlwaysTransientGivesUp ==
    \A p \in Hosts : \A r \in Resources :
        (phase[p] = r /\ plan[r].tail = "transient")
            ~> (/\ phase[p] = "exited"
                /\ outcome[p][r].kind = "InitError"
                /\ outcome[p][r].cause = lastResp[p][r]
                /\ IsTransientFault(outcome[p][r].cause)
                /\ (elapsed[p] > MaxElapsedTime \/ elapsed[p] + wait[p] > MaxElapsedTime))

C4_Witness ==
    \E p \in HostsUp, r \in Resources :
        /\ plan[r].tail = "transient"
        /\ outcome[p][r].kind = "InitError"
        /\ IsTransientFault(outcome[p][r].cause)
        /\ attempts[p][r] > 4
        /\ elapsed[p] + wait[p] > MaxElapsedTime

\* C5: a host serves only after the provisioning of the table and of the
\* bucket both returned Ok; a host whose provisioning returned an error has
\* exited and has served nothing.
C5_StartupGating ==
    \A p \in HostsUp :
        /\ (phase[p] = "serving" \/ served[p] > 0)
            => /\ outcome[p]["table"] = OkResult
               /\ outcome[p]["bucket"] = OkResult
        /\ (\E r \in Resources : outcome[p][r].kind \notin {"Pending", "Ok"})
            => /\ phase[p] = "exited"
               /\ served[p] = 0

C5_Witness ==
    \E p \in HostsUp :
        /\ served[p] > 0
        /\ transients[p]["table"] > 0
        /\ transients[p]["bucket"] > 0

\* C6: two hosts provisioning the same resource at once against a backend
\* that fails no request: neither returns an error, and when both have
\* returned the resource exists and was created once.
C6_CompetingInitialization ==
    \A r \in Resources :
        (\A q \in HostsUp : transients[q][r] = 0)
            => /\ \A p \in HostsUp : outcome[p][r].kind \in {"Pending", "Ok"}
               /\ (\A p \in HostsUp : Returned(p, r))
                    => (exists[r] /\ created[r] = 1)

C6_Witness ==
    \E p, q \in HostsUp :
        /\ p # q
        /\ \A r \in Resources : transients[p][r] = 0 /\ transients[q][r] = 0
        /\ lastResp[p]["table"] = Success
        /\ lastResp[q]["table"] = ServiceError("ResourceInUseException")
        /\ lastResp[q]["bucket"] = Success
        /\ lastResp[p]["bucket"] \in AlreadyExistsSignals("bucket")
        /\ phase[p] = "serving" /\ phase[q] = "serving"

----------------------------------------------------------------------------
(* Claims about the metadata repository *)

\* The backend carried out the request of the last call and reported so.
BackendFine(op) == op.backend \notin RequestFaults

\* C7: get_by_id(id), when its request succeeds and the last write to id was
\* a successful create(r), returns Some(record) with the id, title,
\* description and blob key of r.
C7_CreateGetRoundTrip ==
    (/\ lastOp.op = "get_by_id"
     /\ lastOp.backend = "ok"
     /\ IsSome(written[lastOp.id]))
        => /\ lastOp.result.tag = "Ok"
           /\ IsSome(lastOp.result.value)
           /\ Unwrap(lastOp.result.value).meme_id = Unwrap(written[lastOp.id]).meme_id
           /\ Unwrap(lastOp.result.value).title = Unwrap(written[lastOp.id]).title
           /\ Unwrap(lastOp.result.value).description = Unwrap(written[lastOp.id]).description
           /\ Unwrap(lastOp.result.value).image_key = Unwrap(written[lastOp.id]).image_key

C7_Witness ==
    /\ lastOp.op = "get_by_id"
    /\ lastOp.backend = "ok"
    /\ IsSome(written[lastOp.id])
    /\ lastOp.result = Res("Ok", written[lastOp.id])
    /\ Unwrap(written[lastOp.id]).title = "t2"
    /\ Unwrap(written[lastOp.id]).image_key = "k1.png"
    /\ IsSome(lastOp.prior)

\* C8: the table holds at most one record for an id, and a create (or
\* put_meme) whose request the backend carried out returns Ok, whatever the
\* table held for the id, and leaves exactly the new record under the id.
C8_UpsertById ==
    /\ \A id \in Uuids : Cardinality(LiveItems(table, id)) <= 1
    /\ (lastOp.op \in {"create", "put_meme"} /\ BackendFine(lastOp))
        => /\ lastOp.result = OkUnit
           /\ LiveItems(table, lastOp.id) # {}
           /\ \A i \in LiveItems(table, lastOp.id) : item_to_meme(i) = lastOp.meme

C8_Witness ==
    /\ lastOp.op = "create"
    /\ lastOp.backend = "ok"
    /\ lastOp.result = OkUnit
    /\ IsSome(lastOp.prior)
    /\ Unwrap(lastOp.prior).title # Unwrap(lastOp.meme).title
    /\ Unwrap(lastOp.prior).description # Unwrap(lastOp.meme).description
    /\ Unwrap(lastOp.prior).image_key # Unwrap(lastOp.meme).image_key
    /\ LiveItems(table, lastOp.id) = {MemeItem(Unwrap(lastOp.meme))}

\* C9: get_by_id (or get_meme) for an id the table holds no record of
\* returns Ok(None) unless the request to the backend failed.
C9_MissingLookupIsNone ==
    (/\ lastOp.op \in {"get_by_id", "get_meme"}
     /\ BackendFine(lastOp)
     /\ LiveItems(table, lastOp.id) = {})
        => lastOp.result = Res("Ok", None)

C9_Witness ==
    /\ lastOp.op = "get_by_id"
    /\ lastOp.backend = "ok"
    /\ LiveItems(table, lastOp.id) = {}
    /\ table # {}
    /\ lastOp.result = Res("Ok", None)

\* C10: a delete whose request the backend carried out returns Ok and
\* leaves no record under the id; when there was none the table is
\* unchanged, and so it is when the delete repeats a delete of the same id.
C10_DeleteIdempotent ==
    [][(lastOp'.op = "delete" /\ BackendFine(lastOp'))
        => /\ lastOp'.result = OkUnit
           /\ LiveItems(table', lastOp'.id) = {}
           /\ LiveItems(table, lastOp'.id) = {} => table' = table
           /\ (lastOp.op = "delete" /\ lastOp.id = lastOp'.id /\ lastOp.backend = "ok")
                => table' = table]_vars

C10_Witness ==
    /\ lastOp.op = "delete"
    /\ lastOp.backend = "ok"
    /\ lastOp.result = OkUnit
    /\ ~IsSome(lastOp.prior)
    /\ table # {}

----------------------------------------------------------------------------
(* Claims about stored items that do not decode *)

IsString(av) == av[1] = "S"
\* The item has the four attributes of a record, all strings, and its key
\* spells a UUID.
WellFormed(item) ==
    /\ {"meme_id", "title", "description", "image_key"} \subseteq DOMAIN item
    /\ \A a \in {"meme_id", "title", "description", "image_key"} : IsString(item[a])
    /\ item.meme_id[2].fmt \in UuidSpellings

\* C11: get_by_id(id), when its request succeeds and the table holds under
\* the key of id an item that is not a well-formed record, returns
\* Err(DataCorruption): not Ok(None), not Ok(Some), not BackendError.
C11_UndecodableItemIsDataCorruption ==
    (/\ lastOp.op = "get_by_id"
     /\ lastOp.backend = "ok"
     /\ \E i \in table : i.meme_id = S(UuidToString(lastOp.id)) /\ ~WellFormed(i))
        => lastOp.result = Res("DataCorruption", None)

C11_Witness ==
    /\ lastOp.op = "get_by_id"
    /\ lastOp.backend = "ok"
    /\ \E i \in table : /\ i.meme_id = S(UuidToString(lastOp.id))
                        /\ "title" \notin DOMAIN i
    /\ lastOp.result = Res("DataCorruption", None)

----------------------------------------------------------------------------
(* Claims about the enumeration *)

Enumerations == {"list_all", "list_memes"}
\* The record a well-formed item spells.
RecordOf(item) ==
    [meme_id |-> item.meme_id[2].id, title |-> item.title[2],
     description |-> item.description[2], image_key |-> item.image_key[2]]
Range(seq) == {seq[i] : i \in DOMAIN seq}

BadPages == {j \in DOMAIN scan.pages : \E i \in Range(scan.pages[j]) : ~WellFormed(i)}
FirstBadPage == CHOOSE j \in BadPages : \A k \in BadPages : j <= k

\* C13: an enumeration that reads a page holding an item that is not
\* well-formed, no request up to that page having failed, returns an error
\* (DataCorruption from list_all) and has requested no page after it.
C13_FailFastEnumeration ==
    (/\ lastOp.op \in Enumerations
     /\ BadPages # {}
     /\ \A j \in 1..FirstBadPage : scan.answers[j] = "ok")
        => /\ lastOp.result.tag # "Ok"
           /\ lastOp.op = "list_all" => lastOp.result.tag = "DataCorruption"
           /\ requests = FirstBadPage

----------------------------------------------------------------------------
(* Claims about the blob store *)

NoSuchKey == ServiceError("NoSuchKey")

\* C14: download(key) returns NotFound exactly when the backend answered
\* with its no-such-key signal, and the NotFound carries the requested key;
\* every other failure of the request returns BackendError.
C14_BlobNotFoundDistinction ==
    lastBlob.op = "download"
        => /\ lastBlob.result.tag = "NotFound" <=> lastBlob.backend = NoSuchKey
           /\ lastBlob.result.tag = "NotFound" => lastBlob.result.value = lastBlob.key
           /\ lastBlob.backend \notin {Success, NoSuchKey}
                => lastBlob.result = Res("BackendError", None)

C14_Witness ==
    /\ lastBlob.op = "download"
    /\ lastBlob.backend = NoSuchKey
    /\ lastBlob.result = Res("NotFound", lastBlob.key)
    /\ \E k \in ImageKeys : k # lastBlob.key /\ IsSome(objects[k])

\* C15: download(key), when its request succeeds and the last write to key
\* was a successful upload(key, bytes, Some(ct)), returns the body bytes and
\* the content type ct, whatever object the upload replaced.
C15_BlobRoundTrip ==
    (/\ lastBlob.op = "download"
     /\ lastBlob.backend = Success
     /\ IsSome(uploaded[lastBlob.key])
     /\ IsSome(Unwrap(uploaded[lastBlob.key]).content_type))
        => lastBlob.result =
             Res("Ok", [body |-> Unwrap(uploaded[lastBlob.key]).data,
                        content_type |-> Unwrap(uploaded[lastBlob.key]).content_type])

C15_Witness ==
    /\ lastBlob.op = "download"
    /\ lastBlob.backend = Success
    /\ IsSome(uploaded[lastBlob.key])
    /\ LET up == Unwrap(uploaded[lastBlob.key]) IN
        /\ up.content_type = Some("image/png")
        /\ IsSome(up.replaced)
        /\ Unwrap(up.replaced).body # up.data
        /\ Unwrap(up.replaced).content_type = "image/jpeg"
        /\ lastBlob.result = Res("Ok", [body |-> up.data, content_type |-> Some("image/png")])

\* C16: the write request of upload declares the media type it was given,
\* and none when it was given none, so that the object then has the
\* backend's default media type.
C16_UploadDeclaredMediaType ==
    lastBlob.op = "upload"
        => /\ lastBlob.declared = lastBlob.content_type
           /\ (lastBlob.backend = Success /\ ~IsSome(lastBlob.content_type))
                => Unwrap(objects[lastBlob.key]).content_type = BackendDefaultContentType

\* C17: a delete(key) returns Ok or BackendError; when its request succeeds
\* it returns Ok and no object is left at key, whether or not there was
\* one; the objects at the other keys stay as they were.
C17_BlobDeleteIdempotent ==
    [][lastBlob'.op = "delete"
        => /\ lastBlob'.result.tag \in {"Ok", "BackendError"}
           /\ lastBlob'.backend = Success
                => (lastBlob'.result = OkUnit /\ ~IsSome(objects'[lastBlob'.key]))
           /\ \A k \in ImageKeys : k # lastBlob'.key => objects'[k] = objects[k]]_vars

C17_Witness ==
    /\ lastBlob.op = "delete"
    /\ lastBlob.backend = Success
    /\ lastBlob.result = OkUnit
    /\ ~IsSome(lastBlob.prior[lastBlob.key])
    /\ \E k \in ImageKeys : k # lastBlob.key /\ IsSome(objects[k])

----------------------------------------------------------------------------
(* Claims about failures on the request path *)

RepoOps == {"create", "get_by_id", "list_all", "delete"}
BlobOps == {"upload", "download", "delete"}
TransportFailures == {Resp("TimeoutError", ""), Resp("DispatchFailure", "")}

\* C18: a repository operation whose request timed out returns
\* RepoError::BackendError, and a blob store operation whose request timed
\* out or was not dispatched returns StorageError::BackendError.
C18_TimeoutIsBackendError ==
    /\ (lastOp.op \in RepoOps /\ lastOp.backend = "TimeoutError")
        => lastOp.result = Res("BackendError", None)
    /\ (lastBlob.op \in BlobOps /\ lastBlob.backend \in TransportFailures)
        => lastBlob.result = Res("BackendError", None)

\* The requests of the last enumeration that failed.
FailedRequests == {j \in DOMAIN scan.answers : scan.answers[j] # "ok"}

\* C19: create, get_by_id, delete, upload, download and the blob delete
\* have issued one request when they return, and return an error when it
\* failed; list_all has issued one request for each page it read, returns
\* Ok only after the last page, and returns BackendError at the request
\* that failed.
C19_NoRetryOnRequestPath ==
    /\ lastOp.op \in {"create", "get_by_id", "delete"}
        => /\ requests = 1
           /\ lastOp.backend \in RequestFaults => lastOp.result.tag = "BackendError"
    /\ lastBlob.op \in BlobOps
        => /\ requests = 1
           /\ lastBlob.backend # Success => lastBlob.result.tag # "Ok"
    /\ lastOp.op = "list_all"
        => /\ requests \in 1..Len(scan.pages)
           /\ lastOp.result.tag = "Ok" => requests = Len(scan.pages)
           /\ lastOp.result.tag = "BackendError" <=> requests \in FailedRequests
           /\ \A j \in FailedRequests : requests <= j

C19_Witness ==
    /\ lastOp.op = "create"
    /\ lastOp.backend = "TimeoutError"
    /\ lastOp.result = Res("BackendError", None)
    /\ requests = 1
    /\ table # {}

\* C20: no repository operation returns NotFound; create and delete return
\* Ok or BackendError; DataCorruption comes from get_by_id and list_all
\* only, after a request that succeeded and fetched an item that is not
\* well-formed; a request that failed gives BackendError.
C20_ClosedRepoErrorTaxonomy ==
    lastOp.op \in RepoOps
        => /\ lastOp.result.tag \in {"Ok", "BackendError", "DataCorruption"}
           /\ lastOp.op \in {"create", "delete"}
                => lastOp.result.tag \in {"Ok", "BackendError"}
           /\ lastOp.backend \in RequestFaults => lastOp.result.tag = "BackendError"
           /\ lastOp.result.tag = "DataCorruption"
                => /\ lastOp.backend = "ok"
                   /\ \/ /\ lastOp.op = "get_by_id"
                         /\ \E i \in table : /\ i.meme_id = S(UuidToString(lastOp.id))
                                             /\ ~WellFormed(i)
                      \/ /\ lastOp.op = "list_all"
                         /\ requests \in BadPages

C20_Witness ==
    /\ lastOp.op = "list_all"
    /\ lastOp.result.tag = "DataCorruption"
    /\ requests = 2
    /\ BadPages = {2}
    /\ Len(scan.pages) = MaxPages
    /\ scan.answers[MaxPages] = "TimeoutError"

----------------------------------------------------------------------------
(* Claims about the bucket creation request *)

DefaultRegion == "us-east-1"

\* C23: every CreateBucket request a host has sent, the first and the
\* retries, carries a location constraint exactly when the configured
\* region is not us-east-1, and the constraint is the configured region.
C23_RegionConstraint ==
    \A p \in HostsUp :
        /\ attempts[p]["bucket"] = 0 <=> bucketReq[p] = <<"NoRequest">>
        /\ attempts[p]["bucket"] > 0
            => /\ IsSome(bucketReq[p]) <=> region # DefaultRegion
               /\ IsSome(bucketReq[p]) => Unwrap(bucketReq[p]) = region

C23_Witness ==
    \E p \in HostsUp :
        /\ ~legacy
        /\ region = DefaultRegion
        /\ attempts[p]["bucket"] = 3
        /\ transients[p]["bucket"] = 2
        /\ bucketReq[p] = None
        /\ outcome[p]["bucket"] = OkResult

----------------------------------------------------------------------------
(* Claims about the backoff schedule *)

Min(a, b) == IF a <= b THEN a ELSE b
\* The nominal wait before the n-th retry.
NominalWait(n) == Min(500 * 2 ^ (n - 1), 5000)

\* C28: in the retry loop of startup.rs the wait scheduled before the n-th
\* retry is drawn around min(500 ms * 2^(n-1), 5 s), between half and one
\* and a half times it; the current interval never exceeds 5 s; and every
\* attempt starts within 15 s of the first.
C28_BackoffSchedule ==
    [][\A p \in HostsUp : \A r \in Resources :
        (~legacy /\ attempts'[p][r] = attempts[p][r] + 1)
            => /\ elapsed[p] <= 15000
               /\ interval'[p] <= 5000
               /\ phase'[p] = r
                    => /\ interval'[p] = NominalWait(attempts'[p][r] + 1)
                       /\ \E d \in ReqDurations :
                            LET w == elapsed'[p] - elapsed[p] - d IN
                            /\ 2 * w >= NominalWait(attempts'[p][r])
                            /\ 2 * w <= 3 * NominalWait(attempts'[p][r])]_vars

C28_Witness ==
    \E p \in HostsUp, r \in Resources :
        /\ ~legacy
        /\ phase[p] = r
        /\ attempts[p][r] = 5
        /\ interval[p] = 5000
        /\ elapsed[p] >= 7500

----------------------------------------------------------------------------
(* Claims about concurrent calls *)

\* The items of the table under the key of this id.
ItemsOf(id) == {i \in table : i.meme_id = S(UuidToString(id))}
\* The two creates have returned, none of their requests having failed.
BothCreated ==
    \A c \in Callers :
        /\ task[c].handler = "create" /\ task[c].pc = "done"
        /\ task[c].faults = 0

\* C21: two concurrent calls of create with the same id and different
\* contents, none of their requests failing, both return Ok in either order
\* of the two writes, and the table then holds one item for the id, the
\* item of one of the two records whole.
C21_ConcurrentCreates ==
    (/\ BothCreated
     /\ task["c1"].arg.meme_id = task["c2"].arg.meme_id
     /\ task["c1"].arg # task["c2"].arg)
        => /\ \A c \in Callers : task[c].status = OkUnit
           /\ \E c \in Callers : ItemsOf(task[c].arg.meme_id) = {MemeItem(task[c].arg)}

C21_Witness ==
    /\ BothCreated
    /\ task["c1"].arg.meme_id = 1 /\ task["c2"].arg.meme_id = 1
    /\ task["c1"].arg.title # task["c2"].arg.title
    /\ task["c1"].arg.image_key # task["c2"].arg.image_key
    /\ lastOp.meme = Some(task["c1"].arg)
    /\ IsSome(lastOp.prior) /\ Unwrap(lastOp.prior) = task["c2"].arg
    /\ table = {MemeItem(task["c1"].arg)}

----------------------------------------------------------------------------
(* Claims about the loop of the enumerations *)

Scanning(c) == task[c].handler \in Enumerations
Last(seq) == seq[Len(seq)]

PlacesOf(c, id) ==
    {i \in DOMAIN task[c].status.value : task[c].status.value[i].meme_id = id}

\* C22: list_all returning Ok while other callers create and delete: every
\* record that was in the table when the enumeration began and was not
\* changed while it ran is in the result once, and no id is in the result
\* more than once.
C22_ConcurrentEnumeration ==
    \A c \in Callers :
        (task[c].handler = "list_all" /\ task[c].pc = "done" /\ task[c].status.tag = "Ok")
            => /\ \A i \in task[c].local.started :
                    KeyOf(i) \notin task[c].local.touched
                        => \E n \in PlacesOf(c, KeyOf(i)) :
                            /\ PlacesOf(c, KeyOf(i)) = {n}
                            /\ task[c].status.value[n] = RecordOf(i)
               /\ \A id \in Uuids : Cardinality(PlacesOf(c, id)) <= 1

C22_Witness ==
    /\ task["c1"].handler = "list_all" /\ task["c1"].pc = "done"
    /\ task["c1"].status.tag = "Ok"
    /\ Len(task["c1"].local.sent) >= 2
    /\ task["c1"].local.started = {MemeItem(SampleMeme(u)) : u \in Uuids}
    /\ task["c1"].local.touched = {1}
    /\ Len(task["c1"].status.value) = 1
    /\ task["c1"].status.value[1] = SampleMeme(2)
    /\ table = {MemeItem(SampleMeme(2))}

----------------------------------------------------------------------------
(* Claims about the handlers *)

\* The uploads that got past the form.
PastForm(c) ==
    /\ task[c].handler \in {"upload_meme", "upload_meme_handler"}
    /\ task[c].status # Some(400)

\* C26: with uploads only, backend requests failing and the process
\* crashing at any point, every item of the metadata table names a key
\* whose object is in the bucket and was uploaded with success, and an
\* upload asks for the metadata write only after its blob write returned Ok.
C26_BlobBeforeMetadata ==
    /\ \A i \in table :
        /\ WellFormed(i)
        /\ IsSome(objects[RecordOf(i).image_key])
        /\ IsSome(uploaded[RecordOf(i).image_key])
    /\ \A c \in Callers :
        PastForm(c)
            => /\ task[c].pc = "create" => task[c].local.stored = Some(OkUnit)
               /\ IsSome(task[c].local.recorded) => task[c].local.stored = Some(OkUnit)
               /\ (IsSome(task[c].local.stored) /\ task[c].local.stored # Some(OkUnit))
                    => /\ task[c].pc = "done"
                       /\ task[c].status = Some(500)
                       /\ LiveItems(table, task[c].local.meme.meme_id) = {}

\* A crash between the two writes leaves a blob with no record; a failed
\* blob write leaves nothing.
C26_Witness ==
    /\ ~legacy
    /\ task["c1"].handler = "upload_meme" /\ task["c1"].pc = "done"
    /\ task["c1"].status = None
    /\ task["c1"].local.stored = Some(OkUnit)
    /\ task["c1"].local.recorded = None
    /\ IsSome(objects[task["c1"].local.meme.image_key])
    /\ task["c2"].handler = "upload_meme" /\ task["c2"].status = Some(201)
    /\ table = {MemeItem(task["c2"].local.meme)}

IdHandlers == {"handlers_get_meme", "get_meme_handler", "delete_meme"}

\* C25: a request to get or to delete a record whose id spells no UUID is
\* answered with 400 and sends nothing to the metadata backend or to the
\* blob backend.
C25_UnparsableIdIsRejected ==
    \A c \in Callers :
        (/\ task[c].handler \in IdHandlers
         /\ task[c].pc = "done"
         /\ ~IsSome(Uuid_parse_str(task[c].arg)))
            => /\ task[c].status = Some(400)
               /\ task[c].local.sent = 0

\* The initial store kept whole: an id has its record and its object, or
\* neither.  The requests here only delete, so a record that is gone with
\* its object still there is one a delete left behind.
RecordGone(u) == LiveItems(table, u) = {}
BlobGone(u) == objects[image_key_of(u)] = None
Deleting(c) == task[c].handler = "delete_meme" /\ task[c].status # Some(400)

\* C29: delete_meme asks for the metadata delete only after get_by_id
\* returned a record and the blob delete returned Ok; a request that ends
\* before that leaves the table as it was; and no record is gone while its
\* object is still in the bucket.
C29_DeleteOrdering ==
    /\ [](\A c \in Callers :
            (Deleting(c) /\ (task[c].pc = "repo" \/ IsSome(task[c].local.recorded)))
                => /\ Unwrap(task[c].local.looked).tag = "Ok"
                   /\ IsSome(Unwrap(task[c].local.looked).value)
                   /\ task[c].local.stored = Some(OkUnit))
    /\ [](\A u \in KeyedIds : RecordGone(u) => BlobGone(u))
    /\ [][\A c \in Callers :
            (/\ task'[c] # task[c]
             /\ task'[c].handler = "delete_meme"
             /\ ~IsSome(task'[c].local.recorded))
                => table' = table]_vars

C29_Witness ==
    /\ Deleting("c1") /\ task["c1"].pc = "done"
    /\ task["c1"].status = Some(500)
    /\ task["c1"].local.recorded = Some(Res("BackendError", None))
    /\ lastOp.backend = "ServiceError"
    /\ RecordOf(MemeItem([SampleMeme(1) EXCEPT !.image_key = image_key_of(1)])) = [SampleMeme(1) EXCEPT !.image_key = image_key_of(1)]
    /\ table = {MemeItem([SampleMeme(1) EXCEPT !.image_key = image_key_of(1)])}
    /\ BlobGone(1)
    /\ Deleting("c2") /\ task["c2"].status = Some(500)
    /\ task["c2"].local.stored = Some(Res("BackendError", None))
    /\ task["c2"].local.recorded = None

BothDeleted ==
    \A c \in Callers :
        /\ task[c].handler = "delete_meme" /\ task[c].pc = "done"
        /\ task[c].faults = 0

\* C30: two concurrent delete_meme requests for the id of a record that is
\* there, none of their backend requests failing, each return 204 or 404,
\* one of them at least 204, and leave neither the record nor its object.
C30_ConcurrentDeletes ==
    \A u \in KeyedIds :
        (/\ BothDeleted
         /\ \A c \in Callers : Uuid_parse_str(task[c].arg) = Some(u)
         /\ \E c \in Callers : LookupStatus(Unwrap(task[c].local.looked)) = 200)
            => /\ \A c \in Callers : task[c].status \in {Some(204), Some(404)}
               /\ \E c \in Callers : task[c].status = Some(204)
               /\ RecordGone(u) /\ BlobGone(u)

C30_Witness ==
    /\ BothDeleted
    /\ \A c \in Callers : Uuid_parse_str(task[c].arg) = Some(1)
    /\ task["c1"].status = Some(204) /\ task["c2"].status = Some(204)
    /\ task["c1"].local.sent = 3 /\ task["c2"].local.sent = 3
    /\ IsSome(lastBlob.prior["k1.png"]) = FALSE
    /\ RecordGone(1) /\ BlobGone(1)

----------------------------------------------------------------------------
(* Claims about the error responses *)

Failed(c) == task[c].handler = "into_response"
\* What a failure carries of its cause.
CauseTexts(err) == {err.message, err.source} \ {""}
NotFoundFailure(err) == err.variant = "NotFound"

\* C24: two failures that are no not-found conditions and differ in nothing
\* but the text of their cause get the same response: a status of 500 and a
\* message that holds none of the text.
C24_NoDetailLeak ==
    \A c, d \in Callers :
        (/\ Failed(c) /\ Failed(d)
         /\ ~NotFoundFailure(task[c].arg)
         /\ task[c].arg.type = task[d].arg.type
         /\ task[c].arg.variant = task[d].arg.variant)
            => /\ task[c].status = task[d].status
               /\ Unwrap(task[c].status).status = 500
               /\ Range(Unwrap(task[c].status).error_message)
                    \cap CauseTexts(task[c].arg) = {}

====
